---- MODULE Spec2Model ----
(***************************************************************************)
(* Model of log_mcp/server.py: the log inspection tool server.             *)
(*                                                                         *)
(* Text is modelled at character level: a string is a sequence of          *)
(* one-character strings, so that len(), startswith(), split() and the     *)
(* line splitters are computed as the code computes them.                  *)
(***************************************************************************)
EXTENDS Integers, Sequences, FiniteSets, TLC

VARIABLES LOG_DIRECTORIES, env, content, file_mtime, last, prev, seen

vars == <<LOG_DIRECTORIES, env, content, file_mtime, last, prev, seen>>

\* Optional values (Python None / a value).
None == <<>>
Some(v) == <<v>>
IsNone(o) == o = <<>>
Val(o) == o[1]

Min(a, b) == IF a <= b THEN a ELSE b
Max(a, b) == IF a >= b THEN a ELSE b
Abs(a) == IF a >= 0 THEN a ELSE 0 - a

Range(s) == {s[i] : i \in 1..Len(s)}

RECURSIVE Flatten(_)
Flatten(ss) == IF ss = <<>> THEN <<>> ELSE Head(ss) \o Flatten(Tail(ss))

(***************************************************************************)
(* Bounds of the model.                                                    *)
(***************************************************************************)
\* Largest number of text chunks a file is built from.
MaxChunks == 3

(***************************************************************************)
(* String helpers (str.startswith, str.split, str.strip).                  *)
(***************************************************************************)
startswith(s, prefix) ==
    /\ Len(prefix) <= Len(s)
    /\ SubSeq(s, 1, Len(prefix)) = prefix

RECURSIVE SplitAcc(_, _, _, _)
SplitAcc(s, sep, cur, acc) ==
    IF s = <<>> THEN Append(acc, cur)
    ELSE IF Head(s) = sep THEN SplitAcc(Tail(s), sep, <<>>, Append(acc, cur))
    ELSE SplitAcc(Tail(s), sep, Append(cur, Head(s)), acc)

split(s, sep) == SplitAcc(s, sep, <<>>, <<>>)

RECURSIVE lstrip(_)
lstrip(s) == IF s # <<>> /\ Head(s) = " " THEN lstrip(Tail(s)) ELSE s

RECURSIVE rstrip(_)
rstrip(s) ==
    IF s # <<>> /\ s[Len(s)] = " " THEN rstrip(SubSeq(s, 1, Len(s) - 1)) ELSE s

strip(s) == rstrip(lstrip(s))

(***************************************************************************)
(* The file system the server runs on: directories and regular files,      *)
(* named by their canonical absolute path.  There are no symbolic links.   *)
(***************************************************************************)
FsDirs ==
    { <<"/">>, <<"/", "l">>, <<"/", "l", "2">>, <<"/", "t">>,
      <<"/", "r">>, <<"/", "r", "/", "l", "o", "g">>, <<"/", "p">> }

FsFiles ==
    { <<"/", "l", "/", "a">>, <<"/", "l", "2", "/", "a">>,
      <<"/", "t", "/", "a">>, <<"/", "t", "/", "b">>,
      <<"/", "r", "/", "l", "o", "g", "/", "a">>, <<"/", "s">>,
      <<"/", "p", "/", "a">> }

\* The directories the server's user may traverse but not list.
FsNoRead == { <<"/", "p">> }

\* The process's working directory (Path.resolve of a relative path).
Cwd == <<"/", "t">>

(***************************************************************************)
(* pathlib as used by the server.                                          *)
(***************************************************************************)
\* Path(p).parts without the root: empty and "." components are dropped.
PathParts(p) ==
    SelectSeq(split(p, "/"), LAMBDA c : c # <<>> /\ c # <<".">>)

is_absolute(p) == p # <<>> /\ Head(p) = "/"

\* str() of an absolute path made of the given components.
PathStr(parts) ==
    IF parts = <<>> THEN <<"/">>
    ELSE Flatten([i \in 1..Len(parts) |-> <<"/">> \o parts[i]])

RECURSIVE Canon(_, _)
Canon(parts, acc) ==
    IF parts = <<>> THEN acc
    ELSE IF Head(parts) = <<".", ".">>
         THEN Canon(Tail(parts),
                    IF acc = <<>> THEN acc ELSE SubSeq(acc, 1, Len(acc) - 1))
         ELSE Canon(Tail(parts), Append(acc, Head(parts)))

\* str(Path(p).resolve()): absolute, ".." collapsed.
resolve(p) ==
    IF is_absolute(p) THEN PathStr(Canon(PathParts(p), <<>>))
    ELSE PathStr(Canon(PathParts(Cwd) \o PathParts(p), <<>>))

\* str(Path(p)): duplicate separators, "." components and a trailing
\* separator are dropped; ".." is kept.
RECURSIVE JoinParts(_)
JoinParts(parts) ==
    IF parts = <<>> THEN <<>>
    ELSE IF Len(parts) = 1 THEN Head(parts)
    ELSE Head(parts) \o <<"/">> \o JoinParts(Tail(parts))

Path(p) ==
    IF is_absolute(p) THEN PathStr(PathParts(p))
    ELSE IF PathParts(p) = <<>> THEN <<".">>
    ELSE JoinParts(PathParts(p))

\* Path(dir) / filename for a relative filename.
joinpath(dir, filename) ==
    IF PathParts(filename) = <<>> THEN dir
    ELSE IF dir = <<"/">> THEN dir \o filename
    ELSE dir \o <<"/">> \o filename

\* Path.exists(): the operating system walks the components one by one,
\* and every component that is walked through has to be a directory.
RECURSIVE Walk(_, _)
Walk(cur, parts) ==
    IF parts = <<>> THEN PathStr(cur) \in FsDirs \cup FsFiles
    ELSE IF PathStr(cur) \notin FsDirs THEN FALSE
    ELSE IF Head(parts) = <<".", ".">>
         THEN Walk(IF cur = <<>> THEN cur ELSE SubSeq(cur, 1, Len(cur) - 1),
                   Tail(parts))
         ELSE Walk(Append(cur, Head(parts)), Tail(parts))

exists(p) ==
    IF is_absolute(p) THEN Walk(<<>>, PathParts(p))
    ELSE Walk(PathParts(Cwd), PathParts(p))

is_file(p) == exists(p) /\ resolve(p) \in FsFiles

is_dir(p) == exists(p) /\ resolve(p) \in FsDirs

\* The parent directory of a canonical path.
Parent(p) ==
    LET parts == PathParts(p)
    IN PathStr(SubSeq(parts, 1, Len(parts) - 1))

\* Path.iterdir(): the entries of a directory, as paths below dir.
iterdir(dir) ==
    {joinpath(dir, e[Len(e)]) :
        e \in {PathParts(q) : q \in {q \in (FsDirs \cup FsFiles) \ {<<"/">>} :
                                        Parent(q) = resolve(dir)}}}

\* Path.absolute(): the working directory is put before a relative path.
absolute(p) == IF is_absolute(p) THEN p ELSE joinpath(Cwd, p)

\* The order of str: characters by code point.
Ord(c) ==
    CASE c = "/" -> 47
      [] c = "2" -> 50
      [] c = "a" -> 97
      [] c = "b" -> 98
      [] c = "g" -> 103
      [] c = "l" -> 108
      [] c = "n" -> 110
      [] c = "o" -> 111
      [] c = "p" -> 112
      [] c = "r" -> 114
      [] c = "s" -> 115
      [] c = "t" -> 116
      [] c = "z" -> 122
      [] OTHER -> 0

RECURSIVE StrLess(_, _)
StrLess(a, b) ==
    IF b = <<>> THEN FALSE
    ELSE IF a = <<>> THEN TRUE
    ELSE IF Ord(Head(a)) # Ord(Head(b)) THEN Ord(Head(a)) < Ord(Head(b))
    ELSE StrLess(Tail(a), Tail(b))

\* sorted(): insertion into a sorted list, repeated.
RECURSIVE Insert(_, _)
Insert(x, q) ==
    IF q = <<>> THEN <<x>>
    ELSE IF StrLess(Head(q), x) THEN <<Head(q)>> \o Insert(x, Tail(q))
    ELSE <<x>> \o q

RECURSIVE sorted(_)
sorted(q) == IF q = <<>> THEN <<>> ELSE Insert(Head(q), sorted(Tail(q)))

\* A set as a list, in some order.
RECURSIVE SetToSeq(_)
SetToSeq(S) ==
    IF S = {} THEN <<>>
    ELSE LET x == CHOOSE x \in S : TRUE IN <<x>> \o SetToSeq(S \ {x})

(***************************************************************************)
(* get_log_directories                                                     *)
(***************************************************************************)
get_log_directories_Consumed ==
    IF last # [tool |-> "none"] THEN [ok |-> TRUE, dirs |-> <<>>]
    ELSE IF LOG_DIRECTORIES # <<>>
    THEN [ok |-> TRUE,
          dirs |-> [i \in 1..Len(LOG_DIRECTORIES) |-> Path(LOG_DIRECTORIES[i])]]
    ELSE [ok |-> FALSE,
          error |-> "XDG_RUNTIME_DIR not set and no log directory specified"]

get_log_directories ==
    IF LOG_DIRECTORIES # <<>>
    THEN [ok |-> TRUE,
          dirs |-> [i \in 1..Len(LOG_DIRECTORIES) |-> Path(LOG_DIRECTORIES[i])]]
    ELSE IF ~IsNone(env.LOG_MCP_DIR) /\ Val(env.LOG_MCP_DIR) # <<>>
    THEN [ok |-> TRUE,
          dirs |-> LET parts == split(Val(env.LOG_MCP_DIR), ":")
                       kept == SelectSeq(parts, LAMBDA d : strip(d) # <<>>)
                   IN [i \in 1..Len(kept) |-> Path(strip(kept[i]))]]
    ELSE IF IsNone(env.XDG_RUNTIME_DIR) \/ Val(env.XDG_RUNTIME_DIR) = <<>>
    THEN [ok |-> FALSE,
          error |-> "XDG_RUNTIME_DIR not set and no log directory specified"]
    ELSE [ok |-> TRUE,
          dirs |-> <<joinpath(Path(Val(env.XDG_RUNTIME_DIR)), <<"l", "o", "g">>)>>]

(***************************************************************************)
(* resolve_log_file                                                        *)
(***************************************************************************)
\* The containment test of the absolute branch.
DirAdmits(resolved, log_dir) == startswith(resolved, resolve(log_dir))

\* The loop over the directories for an absolute filename: the first
\* directory that admits the resolved path.
RECURSIVE AbsoluteLoop(_, _, _)
AbsoluteLoop(directories, i, resolved) ==
    IF i > Len(directories)
    THEN [ok |-> FALSE, error |-> "File not in any allowed log directory"]
    ELSE IF DirAdmits(resolved, directories[i])
    THEN [ok |-> TRUE, log_dir |-> directories[i], log_file |-> resolved]
    ELSE AbsoluteLoop(directories, i + 1, resolved)

\* The loop over the directories for a relative filename: the first
\* directory in which the file exists, else the first directory.
RECURSIVE RelativeLoop(_, _, _)
RelativeLoop(directories, i, filename) ==
    IF i > Len(directories)
    THEN IF directories # <<>>
         THEN [ok |-> TRUE, log_dir |-> directories[1],
               log_file |-> resolve(joinpath(directories[1], filename))]
         ELSE [ok |-> FALSE, error |-> "No log directories configured"]
    ELSE IF exists(joinpath(directories[i], filename))
    THEN [ok |-> TRUE, log_dir |-> directories[i],
          log_file |-> resolve(joinpath(directories[i], filename))]
    ELSE RelativeLoop(directories, i + 1, filename)

\* resolve_log_file once get_log_directories has answered.
ResolveIn_FirstOnly(got, filename) ==
    IF ~got.ok THEN [ok |-> FALSE, error |-> got.error]
    ELSE IF is_absolute(filename)
    THEN AbsoluteLoop(got.dirs, 1, resolve(filename))
    ELSE RelativeLoop(got.dirs, Len(got.dirs) + 1, filename)

ResolveIn(got, filename) ==
    IF ~got.ok THEN [ok |-> FALSE, error |-> got.error]
    ELSE IF is_absolute(filename)
    THEN AbsoluteLoop(got.dirs, 1, resolve(filename))
    ELSE RelativeLoop(got.dirs, 1, filename)

resolve_log_file(filename) == ResolveIn(get_log_directories, filename)

(***************************************************************************)
(* Reading a file: open(..., 'r') and Path.read_text() both translate      *)
(* "\r\n" and "\r" to "\n"; st_size counts the bytes on disk.              *)
(***************************************************************************)
RECURSIVE UniversalNewlines(_)
UniversalNewlines(s) ==
    IF s = <<>> THEN <<>>
    ELSE IF Head(s) = "\r"
         THEN IF Len(s) >= 2 /\ s[2] = "\n"
              THEN <<"\n">> \o UniversalNewlines(Tail(Tail(s)))
              ELSE <<"\n">> \o UniversalNewlines(Tail(s))
         ELSE <<Head(s)>> \o UniversalNewlines(Tail(s))

read_text == UniversalNewlines(content)

st_size == Len(content)

RECURSIVE LinesAcc(_, _, _, _)
LinesAcc(s, breaks, cur, acc) ==
    IF s = <<>> THEN (IF cur = <<>> THEN acc ELSE Append(acc, cur))
    ELSE IF Head(s) \in breaks
         THEN LinesAcc(Tail(s), breaks, <<>>, Append(acc, Append(cur, Head(s))))
         ELSE LinesAcc(Tail(s), breaks, Append(cur, Head(s)), acc)

\* f.readlines(): a line ends after "\n".
readlines(text) == LinesAcc(text, {"\n"}, <<>>, <<>>)

\* str.splitlines(keepends=True): a line ends after any line boundary
\* ("\n" and form feed are the boundaries of the model's alphabet).
splitlines(text) == LinesAcc(text, {"\n", "\f"}, <<>>, <<>>)

\* len(line) // 4
CharsPerToken == 4
line_tokens(line) == Len(line) \div CharsPerToken

MaxTokensCap == 100000
MaxNumLines == 1000

\* The sum of the estimates of a sequence of lines.
RECURSIVE SumTokens(_)
SumTokens(ls) == IF ls = <<>> THEN 0 ELSE line_tokens(Head(ls)) + SumTokens(Tail(ls))

Err(tool, text) == [kind |-> "error", tool |-> tool, text |-> text]

\* The order in which the parts of a response are written.
Layout(warnings, cursor) ==
    (IF warnings # <<>> THEN <<"warnings">> ELSE <<>>)
    \o <<"header", "body">>
    \o (IF ~IsNone(cursor) THEN <<"hint">> ELSE <<>>)

(***************************************************************************)
(* The checks every file tool makes before reading (filename present,      *)
(* resolution, existence, regular file).                                   *)
(***************************************************************************)
Located(tool, loc) ==
    IF ~loc.ok THEN Err(tool, "Error: " \o loc.error)
    ELSE IF ~exists(loc.log_file) THEN Err(tool, "Log file does not exist")
    ELSE IF ~is_file(loc.log_file) THEN Err(tool, "Path exists but is not a file")
    ELSE [kind |-> "ok", log_dir |-> loc.log_dir, log_file |-> loc.log_file]

Locate(tool, filename) ==
    IF filename = <<>> THEN Err(tool, "Error: filename parameter is required")
    ELSE Located(tool, resolve_log_file(filename))

(***************************************************************************)
(* list_log_files                                                          *)
(***************************************************************************)
\* The regular files listed in one directory, as absolute paths.
FilesIn(log_dir) ==
    SetToSeq({absolute(item) : item \in {i \in iterdir(log_dir) : is_file(i)}})

\* What one directory adds to errors: nothing, or one message.
ScanError(log_dir) ==
    IF ~exists(log_dir)
    THEN <<[text |-> "Directory does not exist", dir |-> log_dir]>>
    ELSE IF ~is_dir(log_dir)
    THEN <<[text |-> "Path exists but is not a directory", dir |-> log_dir]>>
    ELSE IF resolve(log_dir) \in FsNoRead
    THEN <<[text |-> "Permission denied accessing", dir |-> log_dir]>>
    ELSE <<>>

\* The loop over log_dirs.
RECURSIVE ScanLoop(_, _, _, _)
ScanLoop(log_dirs, i, all_log_files, errors) ==
    IF i > Len(log_dirs)
    THEN [all_log_files |-> all_log_files, errors |-> errors]
    ELSE IF ScanError(log_dirs[i]) # <<>>
    THEN ScanLoop(log_dirs, i + 1, all_log_files, errors \o ScanError(log_dirs[i]))
    ELSE ScanLoop(log_dirs, i + 1, all_log_files \o FilesIn(log_dirs[i]), errors)

\* list_log_files once the directories are scanned.
Listing_FailsOnError(log_dirs, scan) ==
    IF scan.errors # <<>>
    THEN Err("list_log_files", "Error: " \o scan.errors[1].text)
    ELSE [kind |-> "ok", tool |-> "list_log_files",
          scanned |-> log_dirs, files |-> sorted(scan.all_log_files),
          warnings |-> scan.errors,
          layout |-> <<"directories", "files">>]

Listing(log_dirs, scan) ==
    IF scan.all_log_files = <<>> /\ scan.errors = <<>>
    THEN [kind |-> "info", tool |-> "list_log_files",
          text |-> "No log files found in any directory",
          scanned |-> log_dirs, files |-> <<>>, warnings |-> <<>>,
          layout |-> <<"text">>]
    ELSE [kind |-> "ok", tool |-> "list_log_files",
          scanned |-> log_dirs, files |-> sorted(scan.all_log_files),
          warnings |-> scan.errors,
          layout |-> <<"directories", "files">>
                     \o (IF scan.errors # <<>> THEN <<"warnings">> ELSE <<>>)]

ListIn(got) ==
    IF ~got.ok THEN Err("list_log_files", "Error: " \o got.error)
    ELSE Listing(got.dirs, ScanLoop(got.dirs, 1, <<>>, <<>>))

list_log_files == ListIn(get_log_directories)

(***************************************************************************)
(* read_log_paginated                                                      *)
(***************************************************************************)
\* The test that admits a line into the window.
PaginatedTakes(lines, estimated_tokens, lt, max_tokens) ==
    lines # <<>> \/ estimated_tokens + lt <= max_tokens

\* The token loop of read_log_paginated (the while loop).
RECURSIVE PaginatedLoop(_, _, _, _, _)
PaginatedLoop(all_lines, current_idx, lines, estimated_tokens, max_tokens) ==
    IF current_idx < Len(all_lines) /\ estimated_tokens < max_tokens
    THEN LET line == all_lines[current_idx + 1]
             lt == line_tokens(line)
         IN IF PaginatedTakes(lines, estimated_tokens, lt, max_tokens)
            THEN PaginatedLoop(all_lines, current_idx + 1, Append(lines, line),
                               estimated_tokens + lt, max_tokens)
            ELSE [lines |-> lines, estimated_tokens |-> estimated_tokens]
    ELSE [lines |-> lines, estimated_tokens |-> estimated_tokens]

\* all_lines[lo:hi] with 0 <= lo.
Slice(s, lo, hi) == SubSeq(s, lo + 1, Min(hi, Len(s)))

\* expected_mtime is compared with a tolerance of 0.001 s; times are counted
\* in half milliseconds.
MtimeTolerance == 2

FingerprintWarnings_ExactMtime(expected_size, expected_mtime) ==
    (IF ~IsNone(expected_size) /\ Val(expected_size) # st_size
     THEN <<"FILE SIZE CHANGED">> ELSE <<>>)
    \o
    (IF ~IsNone(expected_mtime) /\ Val(expected_mtime) # file_mtime
     THEN <<"FILE MODIFIED">> ELSE <<>>)

FingerprintWarnings(expected_size, expected_mtime) ==
    (IF ~IsNone(expected_size) /\ Val(expected_size) # st_size
     THEN <<"FILE SIZE CHANGED">> ELSE <<>>)
    \o
    (IF ~IsNone(expected_mtime) /\ Abs(Val(expected_mtime) - file_mtime) > MtimeTolerance
     THEN <<"FILE MODIFIED">> ELSE <<>>)

\* The continuation hint: given when the window ends before the last line
\* of the file, naming the line after the window.
PaginatedCursor_Overlap(end_line, total_lines) ==
    IF end_line < total_lines THEN Some(end_line) ELSE None

PaginatedCursor(end_line, total_lines) ==
    IF end_line < total_lines THEN Some(end_line + 1) ELSE None

\* end_line of the line-based mode.
LineModeEnd_OffByOne(start_line, num_lines, total_lines) ==
    Min(start_line + num_lines, total_lines)

LineModeEnd(start_line, num_lines, total_lines) ==
    Min(start_line - 1 + num_lines, total_lines)

\* The checks before the file is touched: arguments, resolution, existence.
PaginatedLocate(a) ==
    LET tool == "read_log_paginated" IN
    IF a.filename = <<>> THEN Err(tool, "Error: filename parameter is required")
    ELSE IF a.start_line < 1 THEN Err(tool, "Error: start_line must be >= 1")
    ELSE IF ~IsNone(a.num_lines) /\ (Val(a.num_lines) < 1 \/ Val(a.num_lines) > MaxNumLines)
         THEN Err(tool, "Error: num_lines must be between 1 and 1000")
    ELSE IF IsNone(a.num_lines) /\ (a.max_tokens < 1 \/ a.max_tokens > MaxTokensCap)
         THEN Err(tool, "Error: max_tokens must be between 1 and 100000")
    ELSE Locate(tool, a.filename)

\* The fingerprint of the file (log_file.stat()) and its comparison with the
\* one the caller expects; the lines are not read yet.
PaginatedStat(a, loc) ==
    IF loc.kind = "error" THEN loc
    ELSE [kind |-> "stat", tool |-> "read_log_paginated", log_file |-> loc.log_file,
          file_size |-> st_size, file_mtime |-> file_mtime,
          warnings |-> FingerprintWarnings(a.expected_size, a.expected_mtime)]

\* The fingerprint the hint tells the caller to pass back.
PaginatedFingerprint_AtRead(stat) == <<st_size, file_mtime>>

PaginatedFingerprint(stat) == <<stat.file_size, stat.file_mtime>>

\* The file is opened and read, and the response written.
PaginatedRead(a, stat) ==
    IF stat.kind = "error" THEN stat
    ELSE
    LET all_lines == readlines(read_text)
        total_lines == Len(all_lines)
        use_line_mode == ~IsNone(a.num_lines)
        tok == PaginatedLoop(all_lines, a.start_line - 1, <<>>, 0, a.max_tokens)
        lines == IF use_line_mode
                 THEN Slice(all_lines, a.start_line - 1,
                            LineModeEnd(a.start_line, Val(a.num_lines), total_lines))
                 ELSE tok.lines
        end_line == IF use_line_mode
                    THEN LineModeEnd(a.start_line, Val(a.num_lines), total_lines)
                    ELSE a.start_line - 1 + Len(lines)
    IN [kind |-> "ok", tool |-> "read_log_paginated", log_file |-> stat.log_file,
        warnings |-> stat.warnings,
        file_size |-> stat.file_size, file_mtime |-> stat.file_mtime,
        total_lines |-> total_lines,
        mode |-> IF use_line_mode THEN "Line-based mode" ELSE "Token-based mode",
        start |-> a.start_line, lines |-> lines,
        shown_end |-> a.start_line - 1 + Len(lines),
        estimated_tokens |-> IF use_line_mode THEN 0 ELSE tok.estimated_tokens,
        cursor |-> PaginatedCursor(end_line, total_lines),
        layout |-> Layout(stat.warnings, PaginatedCursor(end_line, total_lines)),
        next_fingerprint |-> IF end_line < total_lines
                             THEN Some(PaginatedFingerprint(stat)) ELSE None]

\* The call when nothing else runs between its steps.
read_log_paginated(a) == PaginatedRead(a, PaginatedStat(a, PaginatedLocate(a)))

(***************************************************************************)
(* head_log                                                                *)
(***************************************************************************)
\* The token test that ends the window of head_log.
HeadOverBudget_NoForcedLine(lines, estimated_tokens, lt, max_tokens) ==
    estimated_tokens + lt > max_tokens

HeadOverBudget(lines, estimated_tokens, lt, max_tokens) ==
    lines # <<>> /\ estimated_tokens + lt > max_tokens

\* The for loop of head_log over all_lines[idx..].
RECURSIVE HeadLoop(_, _, _, _, _, _)
HeadLoop(all_lines, idx, lines, estimated_tokens, num_lines, max_tokens) ==
    IF idx >= Len(all_lines)
    THEN [lines |-> lines, estimated_tokens |-> estimated_tokens, truncated_by |-> "none"]
    ELSE IF ~IsNone(num_lines) /\ Len(lines) >= Val(num_lines)
    THEN [lines |-> lines, estimated_tokens |-> estimated_tokens, truncated_by |-> "lines"]
    ELSE LET line == all_lines[idx + 1]
             lt == line_tokens(line)
         IN IF HeadOverBudget(lines, estimated_tokens, lt, max_tokens)
            THEN [lines |-> lines, estimated_tokens |-> estimated_tokens,
                  truncated_by |-> "tokens"]
            ELSE HeadLoop(all_lines, idx + 1, Append(lines, line),
                          estimated_tokens + lt, num_lines, max_tokens)

\* The start_line head_log tells the caller to continue from.
HeadCursor(lines_read, total_lines) ==
    IF lines_read < total_lines THEN Some(lines_read + 1) ELSE None

head_log(a) ==
    LET tool == "head_log"
        max_tokens == Min(a.max_tokens, MaxTokensCap)
        loc == Locate(tool, a.filename)
    IN
    IF loc.kind = "error" THEN loc
    ELSE
    LET all_lines == splitlines(read_text)
        total_lines == Len(all_lines)
        r == HeadLoop(all_lines, 0, <<>>, 0, a.lines, max_tokens)
        lines_read == Len(r.lines)
    IN [kind |-> "ok", tool |-> tool, log_file |-> loc.log_file,
        warnings |-> <<>>,
        file_size |-> st_size, total_lines |-> total_lines,
        start |-> 1, lines |-> r.lines, shown_end |-> lines_read,
        estimated_tokens |-> r.estimated_tokens,
        truncated_by |-> r.truncated_by,
        cursor |-> HeadCursor(lines_read, total_lines),
        layout |-> Layout(<<>>, HeadCursor(lines_read, total_lines))]

(***************************************************************************)
(* tail_log                                                                *)
(***************************************************************************)
\* The token test that ends the window of tail_log.
TailOverBudget(lines, estimated_tokens, lt, max_tokens) ==
    lines # <<>> /\ estimated_tokens + lt > max_tokens

\* The for loop of tail_log over reversed(all_lines); idx counts the lines
\* of the end of the file already visited.
RECURSIVE TailLoop(_, _, _, _, _, _)
TailLoop(all_lines, idx, lines, estimated_tokens, num_lines, max_tokens) ==
    IF idx >= Len(all_lines)
    THEN [lines |-> lines, estimated_tokens |-> estimated_tokens]
    ELSE IF ~IsNone(num_lines) /\ Len(lines) >= Val(num_lines)
    THEN [lines |-> lines, estimated_tokens |-> estimated_tokens]
    ELSE LET line == all_lines[Len(all_lines) - idx]
             lt == line_tokens(line)
         IN IF TailOverBudget(lines, estimated_tokens, lt, max_tokens)
            THEN [lines |-> lines, estimated_tokens |-> estimated_tokens]
            ELSE TailLoop(all_lines, idx + 1, <<line>> \o lines,
                          estimated_tokens + lt, num_lines, max_tokens)

tail_log(a) ==
    LET tool == "tail_log"
        max_tokens == Min(a.max_tokens, MaxTokensCap)
        loc == Locate(tool, a.filename)
    IN
    IF loc.kind = "error" THEN loc
    ELSE
    LET all_lines == splitlines(read_text)
        total_lines == Len(all_lines)
        r == TailLoop(all_lines, 0, <<>>, 0, a.lines, max_tokens)
        lines_read == Len(r.lines)
        start_line == total_lines - lines_read + 1
    IN [kind |-> "ok", tool |-> tool, log_file |-> loc.log_file,
        warnings |-> <<>>,
        file_size |-> st_size, total_lines |-> total_lines,
        start |-> start_line, lines |-> r.lines, shown_end |-> total_lines,
        estimated_tokens |-> r.estimated_tokens,
        cursor |-> None,
        layout |-> Layout(<<>>, IF lines_read < total_lines THEN Some(0) ELSE None)]

(***************************************************************************)
(* read_log_range                                                          *)
(***************************************************************************)
\* The token test that ends the window of read_log_range.
RangeOverBudget_AtBudget(lines, estimated_tokens, lt, max_tokens) ==
    lines # <<>> /\ estimated_tokens + lt >= max_tokens

RangeOverBudget(lines, estimated_tokens, lt, max_tokens) ==
    lines # <<>> /\ estimated_tokens + lt > max_tokens

\* The for loop of read_log_range over range(idx, effective_end).
RECURSIVE RangeLoop(_, _, _, _, _, _)
RangeLoop(all_lines, idx, effective_end, lines, estimated_tokens, max_tokens) ==
    IF idx >= effective_end
    THEN [lines |-> lines, estimated_tokens |-> estimated_tokens]
    ELSE LET line == all_lines[idx + 1]
             lt == line_tokens(line)
         IN IF RangeOverBudget(lines, estimated_tokens, lt, max_tokens)
            THEN [lines |-> lines, estimated_tokens |-> estimated_tokens]
            ELSE RangeLoop(all_lines, idx + 1, effective_end, Append(lines, line),
                           estimated_tokens + lt, max_tokens)

\* The start_line read_log_range tells the caller to continue from.
RangeCursor(actual_end, total_lines) ==
    IF actual_end < total_lines THEN Some(actual_end + 1) ELSE None

read_log_range(a) ==
    LET tool == "read_log_range"
        max_tokens == Min(a.max_tokens, MaxTokensCap)
    IN
    IF a.filename = <<>> THEN Err(tool, "Error: filename parameter is required")
    ELSE IF a.start_line < 1 THEN Err(tool, "Error: start_line must be >= 1")
    ELSE IF ~IsNone(a.end_line) /\ Val(a.end_line) < a.start_line
         THEN Err(tool, "Error: end_line must be >= start_line")
    ELSE
    LET loc == Locate(tool, a.filename) IN
    IF loc.kind = "error" THEN loc
    ELSE
    LET all_lines == splitlines(read_text)
        total_lines == Len(all_lines)
    IN
    IF a.start_line > total_lines
    THEN Err(tool, "Error: start_line exceeds file length")
    ELSE
    LET effective_end == Min(IF ~IsNone(a.end_line) THEN Val(a.end_line)
                             ELSE total_lines, total_lines)
        r == RangeLoop(all_lines, a.start_line - 1, effective_end, <<>>, 0, max_tokens)
        actual_end == a.start_line - 1 + Len(r.lines)
    IN [kind |-> "ok", tool |-> tool, log_file |-> loc.log_file,
        warnings |-> <<>>,
        file_size |-> st_size, total_lines |-> total_lines,
        start |-> a.start_line, lines |-> r.lines, shown_end |-> actual_end,
        estimated_tokens |-> r.estimated_tokens,
        cursor |-> RangeCursor(actual_end, total_lines),
        layout |-> Layout(<<>>, RangeCursor(actual_end, total_lines))]

(***************************************************************************)
(* search_log_file                                                         *)
(***************************************************************************)
\* Regular expressions of the model are literal texts; "(" alone does not
\* compile.  re.IGNORECASE folds the upper-case letters of the alphabet.
re_compiles(pattern) == "(" \notin Range(pattern)

Fold(c) ==
    CASE c = "E" -> "e"
      [] c = "R" -> "r"
      [] c = "O" -> "o"
      [] OTHER -> c

FoldAll(s) == [i \in 1..Len(s) |-> Fold(s[i])]

Contains(s, sub) ==
    \E i \in 1..(Len(s) - Len(sub) + 1) : SubSeq(s, i, i + Len(sub) - 1) = sub

re_search(pattern, line, ignorecase) ==
    IF ignorecase THEN Contains(FoldAll(line), FoldAll(pattern))
    ELSE Contains(line, pattern)

\* The indices (0-based) of the matching lines, in file order.
RECURSIVE MatchesFrom(_, _, _, _)
MatchesFrom(lines, i, pattern, ignorecase) ==
    IF i >= Len(lines) THEN <<>>
    ELSE (IF re_search(pattern, lines[i + 1], ignorecase) THEN <<i>> ELSE <<>>)
         \o MatchesFrom(lines, i + 1, pattern, ignorecase)

\* len(f"{marker} {line_num:6d} | ") and len(f"\n{'-' * 60}\n\n")
LinePrefixLen == 13
SeparatorLen == 63

ContextStart(match_idx, context_before) == Max(0, match_idx - context_before)
ContextEnd(match_idx, context_after, total_lines) ==
    Min(total_lines, match_idx + context_after + 1)

RECURSIVE SumLen(_, _, _)
SumLen(lines, start, end) ==
    IF start >= end THEN 0
    ELSE LinePrefixLen + Len(lines[start + 1]) + SumLen(lines, start + 1, end)

\* len(match_text) // 4 for the block of one match.
match_tokens(lines, match_idx, context_before, context_after) ==
    (SumLen(lines, ContextStart(match_idx, context_before),
            ContextEnd(match_idx, context_after, Len(lines))) + SeparatorLen)
        \div CharsPerToken

\* The test that admits a match into the result.
SearchTakes_Strict(paginated_matches, estimated_tokens, mt, max_tokens) ==
    paginated_matches = <<>> \/ estimated_tokens + mt < max_tokens

SearchTakes(paginated_matches, estimated_tokens, mt, max_tokens) ==
    paginated_matches = <<>> \/ estimated_tokens + mt <= max_tokens

\* The token loop over matches_to_process.
RECURSIVE SearchLoop(_, _, _, _, _, _, _)
SearchLoop(lines, todo, paginated_matches, estimated_tokens, context_before, context_after, max_tokens) ==
    IF todo = <<>>
    THEN [matches |-> paginated_matches, estimated_tokens |-> estimated_tokens]
    ELSE LET mt == match_tokens(lines, Head(todo), context_before, context_after)
         IN IF SearchTakes(paginated_matches, estimated_tokens, mt, max_tokens)
            THEN SearchLoop(lines, Tail(todo), Append(paginated_matches, Head(todo)),
                            estimated_tokens + mt, context_before, context_after,
                            max_tokens)
            ELSE [matches |-> paginated_matches, estimated_tokens |-> estimated_tokens]

\* The skip_matches value of the continuation hint.
ResumeSkip(skip_matches, shown, total_matches) ==
    IF skip_matches + shown < total_matches THEN Some(skip_matches + shown)
    ELSE None

\* matches[skip_matches:]
SkipMatches_KeepLast(matches, skip_matches) ==
    SubSeq(matches, Min(skip_matches + 1, Len(matches)), Len(matches))

SkipMatches(matches, skip_matches) ==
    SubSeq(matches, skip_matches + 1, Len(matches))

MaxContext == 10
MaxMatchesCap == 500

search_log_file(a) ==
    LET tool == "search_log_file"
        context_before == IF IsNone(a.context_before) THEN a.context_lines
                          ELSE Val(a.context_before)
        context_after == IF IsNone(a.context_after) THEN a.context_lines
                         ELSE Val(a.context_after)
        use_match_mode == ~IsNone(a.max_matches)
    IN
    IF a.filename = <<>> THEN Err(tool, "Error: filename parameter is required")
    ELSE IF a.pattern = <<>> THEN Err(tool, "Error: pattern parameter is required")
    ELSE IF context_before < 0 \/ context_before > MaxContext
         THEN Err(tool, "Error: context_before must be between 0 and 10")
    ELSE IF context_after < 0 \/ context_after > MaxContext
         THEN Err(tool, "Error: context_after must be between 0 and 10")
    ELSE IF use_match_mode /\ (Val(a.max_matches) < 1 \/ Val(a.max_matches) > MaxMatchesCap)
         THEN Err(tool, "Error: max_matches must be between 1 and 500")
    ELSE IF ~use_match_mode /\ (a.max_tokens < 1 \/ a.max_tokens > MaxTokensCap)
         THEN Err(tool, "Error: max_tokens must be between 1 and 100000")
    ELSE IF a.skip_matches < 0 THEN Err(tool, "Error: skip_matches must be >= 0")
    ELSE
    LET loc == Locate(tool, a.filename) IN
    IF loc.kind = "error" THEN loc
    ELSE IF ~re_compiles(a.pattern) THEN Err(tool, "Error: Invalid regex pattern")
    ELSE
    LET lines == readlines(read_text)
        total_lines == Len(lines)
        matches == MatchesFrom(lines, 0, a.pattern, ~a.case_sensitive)
        total_matches == Len(matches)
        matches_to_process == SkipMatches(matches, a.skip_matches)
    IN
    IF total_matches = 0
    THEN [kind |-> "info", tool |-> tool, text |-> "No matches found for pattern",
          stated |-> [pattern |-> a.pattern]]
    ELSE IF matches_to_process = <<>>
    THEN [kind |-> "info", tool |-> tool, text |-> "No more matches",
          stated |-> [total |-> total_matches, skipped |-> a.skip_matches]]
    ELSE
    LET tok == SearchLoop(lines, matches_to_process, <<>>, 0,
                          context_before, context_after, a.max_tokens)
        paginated_matches ==
            IF use_match_mode
            THEN SubSeq(matches_to_process, 1,
                        Min(Val(a.max_matches), Len(matches_to_process)))
            ELSE tok.matches
        shown == Len(paginated_matches)
    IN [kind |-> "ok", tool |-> tool, log_file |-> loc.log_file,
        warnings |-> <<>>,
        total_lines |-> total_lines, total_matches |-> total_matches,
        mode |-> IF use_match_mode THEN "Match-based mode" ELSE "Token-based mode",
        first_match |-> a.skip_matches + 1,
        last_match |-> a.skip_matches + shown,
        matches |-> paginated_matches,
        item_tokens |-> [j \in 1..shown |->
                            match_tokens(lines, paginated_matches[j],
                                         context_before, context_after)],
        blocks |-> [j \in 1..shown |->
                       [match |-> paginated_matches[j] + 1,
                        from |-> ContextStart(paginated_matches[j], context_before) + 1,
                        to |-> ContextEnd(paginated_matches[j], context_after,
                                          total_lines)]],
        estimated_tokens |-> IF use_match_mode THEN 0 ELSE tok.estimated_tokens,
        remaining |-> total_matches - (a.skip_matches + shown),
        cursor |-> ResumeSkip(a.skip_matches, shown, total_matches),
        layout |-> Layout(<<>>, ResumeSkip(a.skip_matches, shown, total_matches))]

(***************************************************************************)
(* get_log_content                                                         *)
(***************************************************************************)
\* s[:n] of Python: a negative n counts from the end.
SlicePrefix(s, n) ==
    IF n >= 0 THEN SubSeq(s, 1, Min(n, Len(s)))
    ELSE SubSeq(s, 1, Max(0, Len(s) + n))

\* s.rfind('\n'): the 0-based index of the last newline, or -1.
rfind_newline(s) ==
    IF \E i \in 1..Len(s) : s[i] = "\n"
    THEN (CHOOSE i \in 1..Len(s) :
              s[i] = "\n" /\ \A j \in (i + 1)..Len(s) : s[j] # "\n") - 1
    ELSE -1

\* last_newline > max_chars * 0.8, in fifths.
BreakAtNewline_AtLeast(last_newline, max_chars) == 5 * last_newline >= 4 * max_chars

BreakAtNewline(last_newline, max_chars) == 5 * last_newline > 4 * max_chars

\* The truncated content.
Truncate(text, max_chars) ==
    IF BreakAtNewline(rfind_newline(SlicePrefix(text, max_chars)), max_chars)
    THEN SlicePrefix(SlicePrefix(text, max_chars),
                     rfind_newline(SlicePrefix(text, max_chars)))
    ELSE SlicePrefix(text, max_chars)

\* get_log_content once the file is located and read.
ContentReport(loc, text, max_tokens) ==
    IF Len(text) \div CharsPerToken <= max_tokens
    THEN [kind |-> "ok", tool |-> "get_log_content", log_file |-> loc.log_file,
          file_size |-> st_size, total_tokens |-> Len(text) \div CharsPerToken,
          truncated |-> FALSE, body |-> text,
          shown_tokens |-> Len(text) \div CharsPerToken]
    ELSE [kind |-> "ok", tool |-> "get_log_content", log_file |-> loc.log_file,
          file_size |-> st_size, total_tokens |-> Len(text) \div CharsPerToken,
          truncated |-> TRUE,
          body |-> Truncate(text, max_tokens * CharsPerToken),
          shown_tokens |-> Len(Truncate(text, max_tokens * CharsPerToken))
                               \div CharsPerToken]

ContentOpen(a, loc) ==
    IF loc.kind = "error" THEN loc
    ELSE ContentReport(loc, read_text, Min(a.max_tokens, MaxTokensCap))

get_log_content(a) == ContentOpen(a, Locate("get_log_content", a.filename))

(***************************************************************************)
(* find_errors                                                             *)
(***************************************************************************)
\* re.IGNORECASE over the letters of the error files.
Lower(c) ==
    CASE c = "E" -> "e"
      [] c = "R" -> "r"
      [] c = "O" -> "o"
      [] c = "S" -> "s"
      [] c = "W" -> "w"
      [] c = "A" -> "a"
      [] c = "N" -> "n"
      [] OTHER -> c

LowerAll(s) == [i \in 1..Len(s) |-> Lower(s[i])]

\* \w of the regular expressions: letters are word characters, blanks and
\* line ends are not.
IsWordChar(c) == c \notin {" ", "\n", "\f", "\r"}

\* \bword\b matches in line at position i, ignoring case.
WordAt(line, i, word) ==
    /\ i + Len(word) - 1 <= Len(line)
    /\ LowerAll(SubSeq(line, i, i + Len(word) - 1)) = LowerAll(word)
    /\ i = 1 \/ ~IsWordChar(line[i - 1])
    /\ i + Len(word) = Len(line) + 1 \/ ~IsWordChar(line[i + Len(word)])

\* The alternatives of error_patterns that a text over the letters
\* a c e n o r s w (either case), blank and line end can match: \bERROR\b,
\* and \bWARN(ING)?\b with include_warnings.
error_patterns(include_warnings) ==
    { <<"E", "R", "R", "O", "R">> }
    \cup (IF include_warnings THEN { <<"W", "A", "R", "N">> } ELSE {})

\* re.search(combined_pattern, line, re.IGNORECASE)
IsErrorLine(line, include_warnings) ==
    \E word \in error_patterns(include_warnings) :
        \E i \in 1..Len(line) : WordAt(line, i, word)

\* error_indices (0-based), in file order.
RECURSIVE ErrorIndices(_, _, _)
ErrorIndices(lines, i, include_warnings) ==
    IF i >= Len(lines) THEN <<>>
    ELSE (IF IsErrorLine(lines[i + 1], include_warnings) THEN <<i>> ELSE <<>>)
         \o ErrorIndices(lines, i + 1, include_warnings)

\* len(str(n)) of an integer.
RECURSIVE StrLen(_)
StrLen(n) ==
    IF n < 0 THEN 1 + StrLen(0 - n)
    ELSE IF n < 10 THEN 1 ELSE 1 + StrLen(n \div 10)

\* len(result) of the header of find_errors.
ErrorsHeaderLen(log_file, file_size, total_lines, found, include_warnings, context_lines) ==
    (10 + Len(log_file) + 1)
    + (11 + StrLen(file_size) + 8 + StrLen(total_lines) + 7)
    + (6 + StrLen(found) + 12 + (IF include_warnings THEN 21 ELSE 0) + 1)
    + (9 + StrLen(context_lines) + 20)
    + SeparatorLen

\* The lines range(start, end) of one block that are not yet shown.
BlockLines_Repeating(start, end, shown_indices) ==
    [j \in 1..Max(0, end - start) |-> start + j - 1]

BlockLines(start, end, shown_indices) ==
    LET fresh == {i \in start..(end - 1) : i \notin shown_indices}
    IN [j \in 1..Cardinality(fresh) |->
          CHOOSE i \in fresh : Cardinality({k \in fresh : k < i}) = j - 1]

\* len(block): the numbered lines and the separator.
RECURSIVE BlockLen(_, _)
BlockLen(lines, idxs) ==
    IF idxs = <<>> THEN SeparatorLen
    ELSE LinePrefixLen + Len(lines[Head(idxs) + 1]) + BlockLen(lines, Tail(idxs))

\* The token test that ends the list of blocks.
ErrorsOverBudget(shown_errors, estimated_tokens, block_tokens, max_tokens) ==
    shown_errors > 0 /\ estimated_tokens + block_tokens > max_tokens

\* The context range(start, end) of one error.
ErrorContextStart(error_idx, context_lines) == Max(0, error_idx - context_lines)

ErrorContextEnd_Exclusive(error_idx, context_lines, total_lines) ==
    Min(total_lines, error_idx + context_lines)

ErrorContextEnd(error_idx, context_lines, total_lines) ==
    Min(total_lines, error_idx + context_lines + 1)

\* The for loop of find_errors over error_indices.
RECURSIVE ErrorsLoop(_, _, _, _, _, _, _)
ErrorsLoop(lines, todo, blocks, shown_indices, estimated_tokens, context_lines, max_tokens) ==
    IF todo = <<>>
    THEN [blocks |-> blocks, estimated_tokens |-> estimated_tokens]
    ELSE LET idxs == BlockLines(ErrorContextStart(Head(todo), context_lines),
                                ErrorContextEnd(Head(todo), context_lines, Len(lines)),
                                shown_indices)
             block_tokens == BlockLen(lines, idxs) \div CharsPerToken
         IN IF ErrorsOverBudget(Len(blocks), estimated_tokens, block_tokens, max_tokens)
            THEN [blocks |-> blocks, estimated_tokens |-> estimated_tokens]
            ELSE ErrorsLoop(lines, Tail(todo),
                            Append(blocks,
                                   [error |-> Head(todo) + 1,
                                    shown |-> [j \in 1..Len(idxs) |-> idxs[j] + 1],
                                    tokens |-> block_tokens,
                                    marked |-> {i + 1 : i \in Range(idxs) \cap {Head(todo)}}]),
                            shown_indices \cup Range(idxs),
                            estimated_tokens + block_tokens,
                            context_lines, max_tokens)

\* find_errors once the file is located, read and scanned.
ErrorsReport(a, loc, lines, error_indices) ==
    IF error_indices = <<>>
    THEN [kind |-> "info", tool |-> "find_errors", text |-> "No errors found",
          stated |-> [file_size |-> st_size, total_lines |-> Len(lines)]]
    ELSE
    LET context_lines == Min(a.context_lines, MaxContext)
        header_tokens ==
            ErrorsHeaderLen(loc.log_file, st_size, Len(lines), Len(error_indices),
                            a.include_warnings, context_lines) \div CharsPerToken
        r == ErrorsLoop(lines, error_indices, <<>>, {}, header_tokens,
                        context_lines, Min(a.max_tokens, MaxTokensCap))
    IN [kind |-> "ok", tool |-> "find_errors", log_file |-> loc.log_file,
        file_size |-> st_size, total_lines |-> Len(lines),
        found |-> Len(error_indices), context_lines |-> context_lines,
        blocks |-> r.blocks, estimated_tokens |-> r.estimated_tokens,
        remaining |-> Len(error_indices) - Len(r.blocks),
        all_shown |-> Len(r.blocks) = Len(error_indices)]

ErrorsScan(a, loc, lines) ==
    ErrorsReport(a, loc, lines, ErrorIndices(lines, 0, a.include_warnings))

ErrorsOpen(a, loc) ==
    IF loc.kind = "error" THEN loc
    ELSE ErrorsScan(a, loc, splitlines(read_text))

find_errors(a) == ErrorsOpen(a, Locate("find_errors", a.filename))

(***************************************************************************)
(* Inputs of the model.                                                    *)
(***************************************************************************)
\* The pieces of text a log file is made of: an empty line (0 tokens), a
\* short line (1 token) and a long line (2 tokens).
Chunks ==
    { <<"\n">>,
      <<"a", "b", "c", "\n">>,
      <<"a", "b", "c", "d", "e", "f", "g", "h", "\n">> }

\* Every text of at most MaxChunks chunks.
Contents == {Flatten(q) : q \in UNION {[1..n -> Chunks] : n \in 0..MaxChunks}}

NoEnv == [LOG_MCP_DIR |-> None, XDG_RUNTIME_DIR |-> None]

DirL == <<"/", "l">>
DirT == <<"/", "t">>

\* Filenames given to the reading tools: a file of the permitted directory,
\* a traversal out of it, and a name that exists nowhere.
ReadFilenames ==
    { <<"a">>, <<".", ".", "/", "l", "2", "/", "a">>, <<"z">> }

\* Filenames given to resolve_log_file.
PathFilenames ==
    { <<"a">>, <<"b">>, <<"z">>,
      <<".", ".", "/", "l", "2", "/", "a">>,
      <<".", ".", "/", "z">>,
      <<".", ".", "/", "l", "/", "a">>,
      <<".", ".", "/", ".", ".", "/", "s">>,
      <<"/", "l", "/", "a">>,
      <<"/", "l">>,
      <<"/", "l", "2", "/", "a">>,
      <<"/", "l", "2">>,
      <<"/", "t", "/", "a">>,
      <<"/", "l", "/", ".", ".", "/", "l", "2", "/", "a">>,
      <<"/", "l", "/", ".", ".", "/", "t", "/", "a">>,
      <<"/", "l", "/", "z">>,
      <<"/", "s">> }

\* Startup configurations: --log-dir arguments and the environment.
Configs ==
    { [dirs |-> <<DirL>>, env |-> NoEnv],
      [dirs |-> <<DirL, DirT>>, env |-> NoEnv],
      [dirs |-> <<DirT, DirL>>, env |-> NoEnv],
      [dirs |-> <<<<"/", "n">>, DirL>>, env |-> NoEnv],
      [dirs |-> <<<<"/", "l", "/">>>>, env |-> NoEnv],
      [dirs |-> <<<<"/", "l", "2">>>>, env |-> NoEnv],
      [dirs |-> <<<<"/", "s">>, DirL>>, env |-> NoEnv],
      [dirs |-> <<DirT, <<"/", "p">>, DirL>>, env |-> NoEnv],
      [dirs |-> <<<<"/", "p">>, <<"/", "n">>>>, env |-> NoEnv],
      [dirs |-> <<<<"/", "r">>, <<"/">>>>, env |-> NoEnv],
      [dirs |-> <<<<"/", "r">>>>, env |-> NoEnv],
      [dirs |-> <<>>, env |-> NoEnv],
      [dirs |-> <<>>,
       env |-> [LOG_MCP_DIR |-> Some(<<"/", "l", ":", "/", "t">>),
                XDG_RUNTIME_DIR |-> None]],
      [dirs |-> <<>>,
       env |-> [LOG_MCP_DIR |-> Some(<<" ", "/", "t", " ", ":", ":", "/", "l">>),
                XDG_RUNTIME_DIR |-> Some(<<"/", "r">>)]],
      [dirs |-> <<>>,
       env |-> [LOG_MCP_DIR |-> Some(<<":">>), XDG_RUNTIME_DIR |-> Some(<<"/", "r">>)]],
      [dirs |-> <<>>,
       env |-> [LOG_MCP_DIR |-> Some(<<>>), XDG_RUNTIME_DIR |-> Some(<<"/", "r">>)]],
      [dirs |-> <<>>,
       env |-> [LOG_MCP_DIR |-> None, XDG_RUNTIME_DIR |-> Some(<<"/", "r">>)]] }

StartLines == 0..(MaxChunks + 1)
TokenBudgets == {0, 1, 2}
LineCounts == {None} \cup {Some(n) : n \in 0..MaxChunks}
PageSizes == {None, Some(0), Some(1), Some(2)}
EndLines == {None} \cup {Some(n) : n \in 1..MaxChunks}

\* Fingerprints a caller may echo: none, the current one, a stale size, a
\* modification time half a millisecond off, and one 1.5 ms off.
Fingerprints ==
    { <<None, None>>,
      <<Some(st_size), None>>,
      <<Some(st_size + 1), None>>,
      <<None, Some(file_mtime)>>,
      <<None, Some(file_mtime + 1)>>,
      <<None, Some(file_mtime - 3)>> }

SearchPatterns == { <<"a">>, <<"h">>, <<"(">> }
SearchBudgets == {0, 20, 40, 45, 100}
SearchContexts == {0, 1}
SkipCounts == 0..MaxChunks
MatchCaps == {None, Some(1)}

\* The lines of the files given to find_errors: a plain line, an error
\* line, a line where ERROR is part of a longer word, and a warning line.
ErrorFileLines ==
    { <<"a", "\n">>,
      <<"E", "R", "R", "O", "R", " ", "c", "\n">>,
      <<"E", "R", "R", "O", "R", "S", "\n">>,
      <<"w", "a", "r", "n", "\n">> }

MaxErrorFileLines == 5

ErrorContents ==
    {Flatten(q) : q \in UNION {[1..n -> ErrorFileLines] : n \in 0..MaxErrorFileLines}}

ErrorContexts == {-1, 0, 1, 2, MaxContext + 1}
ErrorBudgets == {0, 60, 100}

\* The files given to find_errors and search_log_file alike: plain lines
\* and error lines.
MaxBlockFileLines == 5

BlockContents ==
    {Flatten(q) :
        q \in UNION {[1..n -> { <<"a", "\n">>,
                                <<"E", "R", "R", "O", "R", " ", "c", "\n">> }] :
                        n \in 0..MaxBlockFileLines}}

\* The contents a concurrent writer gives the file: two of 9 bytes (one line,
\* three lines), one of 8 bytes and one of 12 bytes.
FileVersions ==
    { <<"a", "b", "c", "d", "e", "f", "g", "h", "\n">>,
      <<"a", "b", "c", "\n", "\n", "a", "b", "c", "\n">>,
      <<"a", "b", "c", "\n", "a", "b", "c", "\n">>,
      <<"a", "b", "c", "\n", "a", "b", "c", "\n", "a", "b", "c", "\n">> }

\* Latest modification time of the model, in half milliseconds.
MaxMtime == 14

\* The files whose lines end in other ways than "\n": pieces with a form
\* feed inside a line, with "\r\n", and with a bare "\r".
MaxLinePieces == 2

LineContents ==
    {Flatten(q) :
        q \in UNION {[1..n -> { <<"a", "\n">>,
                                <<"a", "\f", "b", "\n">>,
                                <<"a", "\r", "\n">>,
                                <<"a", "\r", "b">> }] :
                        n \in 0..MaxLinePieces}}

\* The contents given to get_log_content: texts of a given length whose
\* newlines are at some of the given positions (1-based), other characters
\* being the letter x.
TextOf(n, newlines) == [i \in 1..n |-> IF i \in newlines THEN "\n" ELSE "x"]

MaxContentLen == 25

ContentLengths == {0, 3, 23, MaxContentLen - 1, MaxContentLen}
NewlinePositions == {4, 16, 17, 18, 21, 24}

WholeContents ==
    {TextOf(n, nl) : n \in ContentLengths, nl \in SUBSET NewlinePositions}

ContentBudgets == {-1, 0, 1, 5, 6, MaxTokensCap + 1}

(***************************************************************************)
(* The calls.  last is the latest call with its result; prev is the call   *)
(* made before it when the latest call was built from its continuation     *)
(* hint or follows it in a session, if any.  A call reads only the         *)
(* configuration and the file system and writes neither, so a behaviour    *)
(* records one call and the calls that follow it.  A handler has no await: *)
(* the event loop runs each call to its end before the next one starts.    *)
(***************************************************************************)
NoCall == [tool |-> "none"]

\* seen is a history variable: the content the file had when the latest
\* fingerprint (stat) of read_log_paginated was taken.

Call(tool, args, res) == [tool |-> tool, args |-> args, res |-> res]

CallResolveLogFile ==
    /\ last = NoCall
    /\ \E filename \in PathFilenames :
         last' = Call("resolve_log_file", [filename |-> filename],
                      resolve_log_file(filename))
    /\ prev' = NoCall
    /\ UNCHANGED <<LOG_DIRECTORIES, env, content, file_mtime, seen>>

CallGetLogDirectories ==
    /\ last = NoCall
    /\ last' = Call("get_log_directories", <<>>, get_log_directories)
    /\ prev' = NoCall
    /\ UNCHANGED <<LOG_DIRECTORIES, env, content, file_mtime, seen>>

CallListLogFiles ==
    /\ last = NoCall
    /\ last' = Call("list_log_files", <<>>, list_log_files)
    /\ prev' = NoCall
    /\ UNCHANGED <<LOG_DIRECTORIES, env, content, file_mtime, seen>>

CallReadLogPaginated ==
    /\ last = NoCall
    /\ \E filename \in ReadFilenames, start_line \in StartLines,
       max_tokens \in TokenBudgets, num_lines \in PageSizes, fp \in Fingerprints :
        LET a == [filename |-> filename, start_line |-> start_line,
                  max_tokens |-> max_tokens, num_lines |-> num_lines,
                  expected_size |-> fp[1], expected_mtime |-> fp[2]]
        IN last' = Call("read_log_paginated", a, read_log_paginated(a))
    /\ prev' = NoCall
    /\ seen' = content
    /\ UNCHANGED <<LOG_DIRECTORIES, env, content, file_mtime>>

CallHeadLog ==
    /\ last = NoCall
    /\ \E filename \in ReadFilenames, lines \in LineCounts, max_tokens \in TokenBudgets :
        LET a == [filename |-> filename, lines |-> lines, max_tokens |-> max_tokens]
        IN last' = Call("head_log", a, head_log(a))
    /\ prev' = NoCall
    /\ UNCHANGED <<LOG_DIRECTORIES, env, content, file_mtime, seen>>

CallTailLog ==
    /\ last = NoCall
    /\ \E filename \in ReadFilenames, lines \in LineCounts, max_tokens \in TokenBudgets :
        LET a == [filename |-> filename, lines |-> lines, max_tokens |-> max_tokens]
        IN last' = Call("tail_log", a, tail_log(a))
    /\ prev' = NoCall
    /\ UNCHANGED <<LOG_DIRECTORIES, env, content, file_mtime, seen>>

CallReadLogRange ==
    /\ last = NoCall
    /\ \E filename \in ReadFilenames, start_line \in StartLines,
       end_line \in EndLines, max_tokens \in TokenBudgets :
        LET a == [filename |-> filename, start_line |-> start_line,
                  end_line |-> end_line, max_tokens |-> max_tokens]
        IN last' = Call("read_log_range", a, read_log_range(a))
    /\ prev' = NoCall
    /\ UNCHANGED <<LOG_DIRECTORIES, env, content, file_mtime, seen>>

CallSearchLogFile ==
    /\ last = NoCall
    /\ \E filename \in ReadFilenames, pattern \in SearchPatterns,
       context_lines \in SearchContexts, max_tokens \in SearchBudgets,
       max_matches \in MatchCaps, skip_matches \in SkipCounts :
        LET a == [filename |-> filename, pattern |-> pattern,
                  context_lines |-> context_lines,
                  context_before |-> None, context_after |-> None,
                  case_sensitive |-> FALSE,
                  max_tokens |-> max_tokens, max_matches |-> max_matches,
                  skip_matches |-> skip_matches]
        IN last' = Call("search_log_file", a, search_log_file(a))
    /\ prev' = NoCall
    /\ UNCHANGED <<LOG_DIRECTORIES, env, content, file_mtime, seen>>

CallGetLogContent ==
    /\ last = NoCall
    /\ \E filename \in ReadFilenames, max_tokens \in ContentBudgets :
        LET a == [filename |-> filename, max_tokens |-> max_tokens]
        IN last' = Call("get_log_content", a, get_log_content(a))
    /\ prev' = NoCall
    /\ UNCHANGED <<LOG_DIRECTORIES, env, content, file_mtime, seen>>

CallFindErrors ==
    /\ last = NoCall
    /\ \E filename \in ReadFilenames, context_lines \in ErrorContexts,
       include_warnings \in BOOLEAN, max_tokens \in ErrorBudgets :
        LET a == [filename |-> filename, context_lines |-> context_lines,
                  include_warnings |-> include_warnings, max_tokens |-> max_tokens]
        IN last' = Call("find_errors", a, find_errors(a))
    /\ prev' = NoCall
    /\ UNCHANGED <<LOG_DIRECTORIES, env, content, file_mtime, seen>>

\* The caller passes the continuation hint of the latest response back, all
\* other parameters as before (head_log names read_log_range as the tool to
\* continue with).
HasCursor(call, tool) ==
    /\ call.tool = tool
    /\ call.res.kind = "ok"
    /\ ~IsNone(call.res.cursor)

FollowReadLogPaginated ==
    /\ HasCursor(last, "read_log_paginated")
    /\ LET a == [last.args EXCEPT
                   !.start_line = Val(last.res.cursor),
                   !.expected_size = Some(Val(last.res.next_fingerprint)[1]),
                   !.expected_mtime = Some(Val(last.res.next_fingerprint)[2])]
       IN last' = Call("read_log_paginated", a, read_log_paginated(a))
    /\ prev' = last
    /\ seen' = content
    /\ UNCHANGED <<LOG_DIRECTORIES, env, content, file_mtime>>

FollowReadLogRange ==
    /\ HasCursor(last, "read_log_range")
    /\ LET a == [last.args EXCEPT !.start_line = Val(last.res.cursor)]
       IN last' = Call("read_log_range", a, read_log_range(a))
    /\ prev' = last
    /\ UNCHANGED <<LOG_DIRECTORIES, env, content, file_mtime, seen>>

FollowHeadLog ==
    /\ HasCursor(last, "head_log")
    /\ LET a == [filename |-> last.args.filename,
                 start_line |-> Val(last.res.cursor),
                 end_line |-> None, max_tokens |-> last.args.max_tokens]
       IN last' = Call("read_log_range", a, read_log_range(a))
    /\ prev' = last
    /\ UNCHANGED <<LOG_DIRECTORIES, env, content, file_mtime, seen>>

FollowSearchLogFile ==
    /\ HasCursor(last, "search_log_file")
    /\ LET a == [last.args EXCEPT !.skip_matches = Val(last.res.cursor)]
       IN last' = Call("search_log_file", a, search_log_file(a))
    /\ prev' = last
    /\ UNCHANGED <<LOG_DIRECTORIES, env, content, file_mtime, seen>>

\* A caller begins to page through a file in token mode from its first line,
\* with no fingerprint to compare.
StartPagination ==
    /\ last = NoCall
    /\ \E filename \in ReadFilenames, max_tokens \in TokenBudgets :
        LET a == [filename |-> filename, start_line |-> 1,
                  max_tokens |-> max_tokens, num_lines |-> None,
                  expected_size |-> None, expected_mtime |-> None]
        IN last' = Call("read_log_paginated", a, read_log_paginated(a))
    /\ prev' = NoCall
    /\ seen' = content
    /\ UNCHANGED <<LOG_DIRECTORIES, env, content, file_mtime>>

\* read_log_paginated step by step, another process writing the file in
\* between.  The call in flight is recorded in last with a result of kind
\* "stat": the fingerprint is taken, the lines are not read yet.
BeginPagination ==
    /\ last = NoCall
    /\ \E filename \in ReadFilenames, max_tokens \in TokenBudgets :
        LET a == [filename |-> filename, start_line |-> 1,
                  max_tokens |-> max_tokens, num_lines |-> None,
                  expected_size |-> None, expected_mtime |-> None]
        IN last' = Call("read_log_paginated", a, PaginatedStat(a, PaginatedLocate(a)))
    /\ prev' = NoCall
    /\ seen' = content
    /\ UNCHANGED <<LOG_DIRECTORIES, env, content, file_mtime>>

BeginFollowUp ==
    /\ HasCursor(last, "read_log_paginated")
    /\ LET a == [last.args EXCEPT
                   !.start_line = Val(last.res.cursor),
                   !.expected_size = Some(Val(last.res.next_fingerprint)[1]),
                   !.expected_mtime = Some(Val(last.res.next_fingerprint)[2])]
       IN last' = Call("read_log_paginated", a, PaginatedStat(a, PaginatedLocate(a)))
    /\ prev' = last
    /\ seen' = content
    /\ UNCHANGED <<LOG_DIRECTORIES, env, content, file_mtime>>

FinishPagination ==
    /\ last.tool = "read_log_paginated"
    /\ last.res.kind = "stat"
    /\ last' = Call("read_log_paginated", last.args, PaginatedRead(last.args, last.res))
    /\ UNCHANGED <<LOG_DIRECTORIES, env, content, file_mtime, prev, seen>>

\* Another process replaces the content of the file; the modification time
\* stays (reset, or below the clock's resolution), or moves by 0.5 ms or by
\* 1.5 ms.
WriteFile ==
    /\ \E text \in FileVersions, dt \in {0, 1, 3} :
         /\ text # content
         /\ file_mtime + dt <= MaxMtime
         /\ content' = text
         /\ file_mtime' = file_mtime + dt
    /\ UNCHANGED <<LOG_DIRECTORIES, env, last, prev, seen>>

\* A second call in the same process, after the first one has returned.
FirstCallReturned ==
    /\ last # NoCall
    /\ prev = NoCall
    /\ last.tool \in {"resolve_log_file", "get_log_directories", "list_log_files"}

ThenResolveLogFile ==
    /\ FirstCallReturned
    /\ \E filename \in PathFilenames :
         last' = Call("resolve_log_file", [filename |-> filename],
                      resolve_log_file(filename))
    /\ prev' = last
    /\ UNCHANGED <<LOG_DIRECTORIES, env, content, file_mtime, seen>>

ThenGetLogDirectories ==
    /\ FirstCallReturned
    /\ last' = Call("get_log_directories", <<>>, get_log_directories)
    /\ prev' = last
    /\ UNCHANGED <<LOG_DIRECTORIES, env, content, file_mtime, seen>>

ThenListLogFiles ==
    /\ FirstCallReturned
    /\ last' = Call("list_log_files", <<>>, list_log_files)
    /\ prev' = last
    /\ UNCHANGED <<LOG_DIRECTORIES, env, content, file_mtime, seen>>

(***************************************************************************)
(* Specifications.                                                         *)
(***************************************************************************)
\* The server started with --log-dir /l, serving one file of any content.
Init ==
    /\ LOG_DIRECTORIES = <<DirL>>
    /\ env = NoEnv
    /\ content \in Contents
    /\ file_mtime = 10
    /\ last = NoCall
    /\ prev = NoCall
    /\ seen = <<>>

Next ==
    \/ CallReadLogPaginated
    \/ CallHeadLog
    \/ CallTailLog
    \/ CallReadLogRange
    \/ CallSearchLogFile
    \/ FollowReadLogPaginated
    \/ FollowReadLogRange
    \/ FollowHeadLog
    \/ FollowSearchLogFile

Spec == Init /\ [][Next]_vars

\* The server started under any configuration; file names are resolved.
InitPath ==
    /\ \E c \in Configs : LOG_DIRECTORIES = c.dirs /\ env = c.env
    /\ content = <<"a", "b", "c", "\n">>
    /\ file_mtime = 10
    /\ last = NoCall
    /\ prev = NoCall
    /\ seen = <<>>

NextPath ==
    \/ CallResolveLogFile
    \/ CallGetLogDirectories
    \/ CallListLogFiles

SpecPath == InitPath /\ [][NextPath]_vars

\* The server started with --log-dir /l, serving one file whose lines are
\* plain lines, error lines and warning lines.
InitErrors ==
    /\ LOG_DIRECTORIES = <<DirL>>
    /\ env = NoEnv
    /\ content \in ErrorContents
    /\ file_mtime = 10
    /\ last = NoCall
    /\ prev = NoCall
    /\ seen = <<>>

NextErrors == CallFindErrors

SpecErrors == InitErrors /\ [][NextErrors]_vars

\* The server started with --log-dir /l, serving one file read as a whole.
InitContent ==
    /\ LOG_DIRECTORIES = <<DirL>>
    /\ env = NoEnv
    /\ content \in WholeContents
    /\ file_mtime = 10
    /\ last = NoCall
    /\ prev = NoCall
    /\ seen = <<>>

NextContent == CallGetLogContent

SpecContent == InitContent /\ [][NextContent]_vars

\* The server started with --log-dir /l, serving one file of plain lines and
\* error lines to find_errors and to search_log_file.
InitBlocks ==
    /\ LOG_DIRECTORIES = <<DirL>>
    /\ env = NoEnv
    /\ content \in BlockContents
    /\ file_mtime = 10
    /\ last = NoCall
    /\ prev = NoCall
    /\ seen = <<>>

NextBlocks ==
    \/ CallFindErrors
    \/ CallSearchLogFile

SpecBlocks == InitBlocks /\ [][NextBlocks]_vars

\* A caller pages through the file and passes every continuation hint back
\* for as long as it is given one.
NextPaging ==
    \/ StartPagination
    \/ FollowReadLogPaginated

SpecPaging ==
    Init /\ [][NextPaging]_vars /\ WF_vars(FollowReadLogPaginated)

\* The server started with --log-dir /l; a caller pages through the file
\* while another process writes it.
InitWriter ==
    /\ LOG_DIRECTORIES = <<DirL>>
    /\ env = NoEnv
    /\ content \in FileVersions
    /\ file_mtime = 10
    /\ last = NoCall
    /\ prev = NoCall
    /\ seen = <<>>

NextWriter ==
    \/ BeginPagination
    \/ BeginFollowUp
    \/ FinishPagination
    \/ WriteFile

SpecWriter == InitWriter /\ [][NextWriter]_vars

\* The server started with --log-dir /l, serving one file with line
\* separators of several kinds to every tool that numbers lines.
InitLines ==
    /\ LOG_DIRECTORIES = <<DirL>>
    /\ env = NoEnv
    /\ content \in LineContents
    /\ file_mtime = 10
    /\ last = NoCall
    /\ prev = NoCall
    /\ seen = <<>>

NextLines ==
    \/ CallReadLogPaginated
    \/ CallHeadLog
    \/ CallTailLog
    \/ CallReadLogRange
    \/ CallSearchLogFile
    \/ CallFindErrors

SpecLines == InitLines /\ [][NextLines]_vars

\* The server started under any configuration and answers two calls, one
\* after the other.
NextSession ==
    \/ CallResolveLogFile
    \/ CallGetLogDirectories
    \/ CallListLogFiles
    \/ ThenResolveLogFile
    \/ ThenGetLogDirectories
    \/ ThenListLogFiles

SpecSession == InitPath /\ [][NextSession]_vars

(***************************************************************************)
(* Properties.                                                             *)
(***************************************************************************)
\* Separator-aware containment: P is D or lies below D.
Inside(P, D) ==
    LET pp == PathParts(P)
        dd == PathParts(D)
    IN Len(dd) <= Len(pp) /\ SubSeq(pp, 1, Len(dd)) = dd

PermittedDirs == IF get_log_directories.ok THEN get_log_directories.dirs ELSE <<>>

InsideSomePermitted(P) ==
    \E i \in 1..Len(PermittedDirs) : Inside(P, resolve(PermittedDirs[i]))

\* C1: for an absolute filename resolve_log_file returns (dir, path) only
\* if the canonical path is a permitted directory or lies below one (the
\* directory's canonical form followed by a separator); any other absolute
\* path, such as one in a sibling directory whose name extends a permitted
\* name, is rejected with 'File not in any allowed log directory'.
C1_AbsoluteContained ==
    (last.tool = "resolve_log_file" /\ is_absolute(last.args.filename)
        /\ get_log_directories.ok)
    => IF InsideSomePermitted(resolve(last.args.filename))
       THEN last.res.ok /\ Inside(last.res.log_file, resolve(last.res.log_dir))
       ELSE ~last.res.ok /\ last.res.error = "File not in any allowed log directory"

\* C2: for a relative filename the path resolve_log_file returns lies inside
\* the canonical form of the owning directory it returns, whether the joined
\* file exists or the first directory is used as the fallback.
C2_RelativeContained ==
    (last.tool = "resolve_log_file" /\ ~is_absolute(last.args.filename)
        /\ last.res.ok)
    => Inside(last.res.log_file, resolve(last.res.log_dir))

\* The lines of the file as the two groups of tools number them.
SplitLinesOfFile == splitlines(read_text)
ReadLinesOfFile == readlines(read_text)

LineTools == {"read_log_paginated", "head_log", "tail_log", "read_log_range"}
ReadTools == LineTools \cup {"search_log_file"}

IsWindow(c) == c.tool \in ReadTools /\ c.res.kind = "ok"

\* The call runs under a token budget only: no line count, page size or
\* match cap was supplied.
TokenBudgeted(c) ==
    CASE c.tool \in {"head_log", "tail_log"} -> IsNone(c.args.lines)
      [] c.tool = "read_log_range" -> TRUE
      [] c.tool = "read_log_paginated" -> IsNone(c.args.num_lines)
      [] c.tool = "search_log_file" -> IsNone(c.args.max_matches)
      [] OTHER -> FALSE

\* There is something to emit.
HasItems(c) ==
    CASE c.tool \in {"head_log", "tail_log", "read_log_range"} ->
            c.res.total_lines >= 1
      [] c.tool = "read_log_paginated" -> c.args.start_line <= c.res.total_lines
      [] c.tool = "search_log_file" -> TRUE
      [] OTHER -> FALSE

ItemCount(c) ==
    IF c.tool = "search_log_file" THEN Len(c.res.matches) ELSE Len(c.res.lines)

\* C3: a token-budgeted call that has something to emit emits at least one
\* line or match, even when the first item alone costs more than max_tokens.
C3_AtLeastOneItem ==
    (IsWindow(last) /\ TokenBudgeted(last) /\ HasItems(last))
    => ItemCount(last) >= 1

RECURSIVE SumSeq(_)
SumSeq(q) == IF q = <<>> THEN 0 ELSE Head(q) + SumSeq(Tail(q))

\* The estimates of the emitted items without the forced one (the first item
\* taken: the last line of the window for tail_log, the first otherwise).
CostAfterForced(c) ==
    CASE c.tool = "search_log_file" ->
            IF c.res.item_tokens = <<>> THEN 0 ELSE SumSeq(Tail(c.res.item_tokens))
      [] c.tool = "tail_log" ->
            IF c.res.lines = <<>> THEN 0
            ELSE SumTokens(SubSeq(c.res.lines, 1, Len(c.res.lines) - 1))
      [] OTHER ->
            IF c.res.lines = <<>> THEN 0 ELSE SumTokens(Tail(c.res.lines))

UsesTokenBudget(c) ==
    CASE c.tool = "read_log_paginated" -> IsNone(c.args.num_lines)
      [] c.tool = "search_log_file" -> IsNone(c.args.max_matches)
      [] OTHER -> TRUE

\* C4: in a token-budgeted mode the estimates of the emitted items, without
\* the first forced item, sum to at most max_tokens.
C4_WithinBudget ==
    (IsWindow(last) /\ UsesTokenBudget(last))
    => CostAfterForced(last) <= last.args.max_tokens

\* The lines a line tool numbers, and all matches of a search call.
LinesSeenBy(tool) ==
    IF tool = "read_log_paginated" THEN ReadLinesOfFile ELSE SplitLinesOfFile

AllMatches(c) ==
    MatchesFrom(ReadLinesOfFile, 0, c.args.pattern, ~c.args.case_sensitive)

\* The window of a call is the run of items it claims to show.
WindowIsExact(c) ==
    IF c.tool = "search_log_file"
    THEN c.res.matches = SubSeq(AllMatches(c), c.res.first_match, c.res.last_match)
    ELSE c.res.lines = SubSeq(LinesSeenBy(c.tool), c.res.start, c.res.shown_end)

\* The window of the latest call starts one past the end of the window whose
\* hint it was built from.
NextWindowFollows ==
    /\ IsWindow(last)
    /\ WindowIsExact(prev)
    /\ WindowIsExact(last)
    /\ IF last.tool = "search_log_file"
       THEN last.res.first_match = prev.res.last_match + 1
       ELSE last.res.start = prev.res.shown_end + 1

\* C5 as stated: the call built from a continuation hint, all other
\* parameters unchanged, yields the window that starts one past the last
\* item of the previous window.
C5_CursorRoundTrip == (prev # NoCall) => NextWindowFollows

\* The hint of read_log_range points past an end_line that is kept.
CursorPastEndLine ==
    /\ last.tool = "read_log_range"
    /\ ~IsNone(last.args.end_line)
    /\ Val(last.args.end_line) < last.args.start_line

\* C5 (amended): the call built from a continuation hint yields the window
\* that starts one past the last item of the previous window, except that
\* read_log_range called again with an end_line below the hinted start_line
\* is rejected with 'end_line must be >= start_line'.
C5_CursorRoundTripAmended ==
    (prev # NoCall)
    => IF CursorPastEndLine
       THEN last.res = Err("read_log_range", "Error: end_line must be >= start_line")
       ELSE NextWindowFollows

C5_Witness ==
    /\ prev # NoCall
    /\ prev.tool = "read_log_paginated"
    /\ IsWindow(last)
    /\ ItemCount(prev) >= 1
    /\ ItemCount(last) >= 1
    /\ ~IsNone(last.res.cursor)

\* C6: for 1 <= N <= total lines, head_log(lines=N) emits the lines, with
\* the line numbers, that read_log_range(start_line=1, end_line=N) emits
\* under the same max_tokens.
C6_HeadEqualsRange ==
    (last.tool = "head_log" /\ last.res.kind = "ok" /\ ~IsNone(last.args.lines)
        /\ Val(last.args.lines) >= 1
        /\ Val(last.args.lines) <= last.res.total_lines)
    => LET r == read_log_range([filename |-> last.args.filename,
                                start_line |-> 1,
                                end_line |-> last.args.lines,
                                max_tokens |-> last.args.max_tokens])
       IN /\ r.kind = "ok"
          /\ r.lines = last.res.lines
          /\ r.start = last.res.start
          /\ r.shown_end = last.res.shown_end

C6_Witness ==
    /\ last.tool = "head_log"
    /\ last.res.kind = "ok"
    /\ ~IsNone(last.args.lines)
    /\ Val(last.args.lines) = 3
    /\ last.res.total_lines = 3
    /\ Len(last.res.lines) = 2
    /\ last.res.truncated_by = "tokens"

\* C7: tail_log(lines=N) returns the last N lines of the file (all of them
\* when N >= total lines) in file order, the first one numbered
\* total lines - emitted + 1, for every max_tokens of the documented range.
C7_TailIsLastN ==
    (last.tool = "tail_log" /\ last.res.kind = "ok" /\ ~IsNone(last.args.lines)
        /\ last.args.max_tokens >= 1)
    => LET total == last.res.total_lines
           n == Min(Val(last.args.lines), total)
       IN /\ last.res.lines = SubSeq(SplitLinesOfFile, total - n + 1, total)
          /\ last.res.start = total - Len(last.res.lines) + 1

\* C8: head_log called with lines=N emits exactly min(N, total lines) lines
\* whatever max_tokens (of the documented range) is.
C8_LineCapWins ==
    (last.tool = "head_log" /\ last.res.kind = "ok" /\ ~IsNone(last.args.lines)
        /\ last.args.max_tokens >= 1)
    => Len(last.res.lines) = Min(Val(last.args.lines), last.res.total_lines)

\* max_tokens values tried in place of the one given, valid and invalid.
OtherBudgets == TokenBudgets \cup {MaxTokensCap + 1}

\* C9: with num_lines supplied read_log_paginated runs in line-count mode:
\* max_tokens is neither validated nor used (any other value gives the same
\* response) and the lines emitted are exactly
\* start_line .. min(start_line - 1 + num_lines, total lines); without
\* num_lines it runs in token-budgeted mode and emits a run of lines that
\* begins at start_line.
C9_LineModeOverrides ==
    (last.tool = "read_log_paginated")
    => LET a == last.args
           r == last.res
       IN IF ~IsNone(a.num_lines)
          THEN /\ \A mt \in OtherBudgets :
                     read_log_paginated([a EXCEPT !.max_tokens = mt]) = r
               /\ r.kind = "error"
                     => r.text # "Error: max_tokens must be between 1 and 100000"
               /\ r.kind = "ok"
                     => /\ r.mode = "Line-based mode"
                        /\ r.start = a.start_line
                        /\ r.lines = SubSeq(ReadLinesOfFile, a.start_line,
                                            Min(a.start_line - 1 + Val(a.num_lines),
                                                r.total_lines))
          ELSE r.kind = "ok"
                  => /\ r.mode = "Token-based mode"
                     /\ r.start = a.start_line
                     /\ r.lines = SubSeq(ReadLinesOfFile, a.start_line,
                                         a.start_line - 1 + Len(r.lines))

C9_Witness ==
    /\ last.tool = "read_log_paginated"
    /\ last.res.kind = "ok"
    /\ last.args.num_lines = Some(2)
    /\ last.args.max_tokens = 0
    /\ last.args.start_line = 2
    /\ Len(last.res.lines) = 2

\* What the fingerprint has no part in: the response without its warnings.
WithoutWarnings(r) ==
    IF r.kind = "ok"
    THEN [r EXCEPT !.warnings = <<>>, !.layout = Layout(<<>>, r.cursor)]
    ELSE r

SameCallWithoutFingerprint(c) ==
    read_log_paginated([c.args EXCEPT !.expected_size = None,
                                      !.expected_mtime = None])

\* The response is the one of the call without fingerprint, with the
\* warnings, if any, written first.
AdvisoryOnly(c) ==
    /\ WithoutWarnings(c.res) = SameCallWithoutFingerprint(c)
    /\ c.res.kind = "ok"
          => c.res.layout = Layout(c.res.warnings, c.res.cursor)
    /\ (c.res.kind = "ok" /\ c.res.warnings # <<>>)
          => Head(c.res.layout) = "warnings"

SizeDiffers(c) ==
    ~IsNone(c.args.expected_size) /\ Val(c.args.expected_size) # st_size

MtimeDiffers(c) ==
    ~IsNone(c.args.expected_mtime) /\ Val(c.args.expected_mtime) # file_mtime

\* C10 as stated: an expected_size or expected_mtime that does not match the
\* file's current value puts a staleness warning before the header of the
\* window the call returns without fingerprint; a mismatch makes no error
\* and a matching fingerprint adds no warning.
C10_StaleFingerprintWarns ==
    (last.tool = "read_log_paginated")
    => /\ AdvisoryOnly(last)
       /\ last.res.kind = "ok"
             => ((SizeDiffers(last) \/ MtimeDiffers(last))
                    <=> last.res.warnings # <<>>)

MtimeDiffersBeyondTolerance(c) ==
    /\ ~IsNone(c.args.expected_mtime)
    /\ Abs(Val(c.args.expected_mtime) - file_mtime) > MtimeTolerance

\* C10 (amended): an expected_size different from the file's size, or an
\* expected_mtime more than 0.001 s away from the file's modification time,
\* puts a staleness warning before the header of the window the call returns
\* without fingerprint; a mismatch makes no error, and a matching size and
\* an expected_mtime within 0.001 s add no warning.
C10_StaleFingerprintWarnsAmended ==
    (last.tool = "read_log_paginated")
    => /\ AdvisoryOnly(last)
       /\ last.res.kind = "ok"
             => /\ SizeDiffers(last) <=> "FILE SIZE CHANGED" \in Range(last.res.warnings)
                /\ MtimeDiffersBeyondTolerance(last)
                      <=> "FILE MODIFIED" \in Range(last.res.warnings)
                /\ Range(last.res.warnings) \subseteq {"FILE SIZE CHANGED", "FILE MODIFIED"}

C10_Witness ==
    /\ last.tool = "read_log_paginated"
    /\ last.res.kind = "ok"
    /\ SizeDiffers(last)
    /\ last.res.warnings = <<"FILE SIZE CHANGED">>
    /\ Len(last.res.lines) >= 2
    /\ ~IsNone(last.res.cursor)

\* The arguments of a search call are within their documented bounds, the
\* file is found and the pattern compiles.
SearchReachesFile(c) ==
    /\ c.tool = "search_log_file"
    /\ Locate(c.tool, c.args.filename).kind = "ok"
    /\ re_compiles(c.args.pattern)
    /\ c.args.context_lines \in 0..MaxContext
    /\ IF IsNone(c.args.max_matches)
       THEN c.args.max_tokens \in 1..MaxTokensCap
       ELSE Val(c.args.max_matches) \in 1..MaxMatchesCap
    /\ c.args.skip_matches >= 0

SkipsEverything(c) ==
    /\ SearchReachesFile(c)
    /\ c.args.skip_matches >= Len(AllMatches(c))

NoMoreMatches(c) ==
    [kind |-> "info", tool |-> "search_log_file", text |-> "No more matches",
     stated |-> [total |-> Len(AllMatches(c)), skipped |-> c.args.skip_matches]]

\* C11 as stated: search_log_file with skip_matches >= total matches
\* returns the 'No more matches' result, stating the total and the skipped
\* count, for every number of matches in the file.
C11_SkipPastEnd == SkipsEverything(last) => last.res = NoMoreMatches(last)

\* C11 (amended): search_log_file with skip_matches >= total matches returns
\* the 'No more matches' result, stating the total and the skipped count,
\* when the file has at least one match, and the 'No matches found for
\* pattern' result, stating the pattern only, when it has none; it is never
\* an error and never a window.
C11_SkipPastEndAmended ==
    SkipsEverything(last)
    => IF Len(AllMatches(last)) >= 1
       THEN last.res = NoMoreMatches(last)
       ELSE last.res = [kind |-> "info", tool |-> "search_log_file",
                        text |-> "No matches found for pattern",
                        stated |-> [pattern |-> last.args.pattern]]

C11_Witness ==
    /\ SkipsEverything(last)
    /\ Len(AllMatches(last)) = 2
    /\ last.args.skip_matches = 3
    /\ last.res.text = "No more matches"

\* The last line read_log_range may emit: min(end_line or total, total).
RangeLimit(c) ==
    Min(IF IsNone(c.args.end_line) THEN Len(SplitLinesOfFile)
        ELSE Val(c.args.end_line), Len(SplitLinesOfFile))

\* A read_log_range call on a file that is found, start_line >= 1.
RangeReachesFile(c) ==
    /\ c.tool = "read_log_range"
    /\ Locate(c.tool, c.args.filename).kind = "ok"
    /\ c.args.start_line >= 1

\* C12: read_log_range (file found, start_line >= 1) returns an error when
\* end_line < start_line or start_line > total lines; otherwise it emits a
\* contiguous run of lines that starts at start_line and ends no later than
\* min(end_line or total lines, total lines), and the run ends before that
\* line only when the next line would take the estimate over max_tokens.
C12_RangeWindow ==
    RangeReachesFile(last)
    => LET a == last.args
           r == last.res
           total == Len(SplitLinesOfFile)
       IN IF ~IsNone(a.end_line) /\ Val(a.end_line) < a.start_line
          THEN r = Err("read_log_range", "Error: end_line must be >= start_line")
          ELSE IF a.start_line > total
          THEN r = Err("read_log_range", "Error: start_line exceeds file length")
          ELSE /\ r.kind = "ok"
               /\ r.start = a.start_line
               /\ r.lines # <<>>
               /\ r.lines = SubSeq(SplitLinesOfFile, a.start_line, r.shown_end)
               /\ r.shown_end <= RangeLimit(last)
               /\ r.shown_end < RangeLimit(last)
                     => SumTokens(r.lines) + line_tokens(SplitLinesOfFile[r.shown_end + 1])
                            > Min(a.max_tokens, MaxTokensCap)

C12_Witness ==
    /\ RangeReachesFile(last)
    /\ last.res.kind = "ok"
    /\ last.args.start_line = 2
    /\ last.args.end_line = Some(3)
    /\ last.res.shown_end = 2
    /\ last.args.max_tokens = 2

\* The line numbers (1-based) of the lines of the file that match the
\* error patterns of a find_errors call.
ErrorLineNumbers(c) ==
    LET idx == ErrorIndices(SplitLinesOfFile, 0, c.args.include_warnings)
    IN [j \in 1..Len(idx) |-> idx[j] + 1]

\* A find_errors call on a file that is found, with context_lines in its
\* documented range, exactly one line of the file matching.
OneErrorLine(c) ==
    /\ c.tool = "find_errors"
    /\ Locate(c.tool, c.args.filename).kind = "ok"
    /\ c.args.context_lines \in 0..MaxContext
    /\ Len(ErrorLineNumbers(c)) = 1

\* C13: when exactly one line of the file, line k, matches the error
\* patterns, find_errors(context_lines=c) returns exactly one block; the block
\* shows the lines max(1, k-c) .. min(total lines, k+c) and marks line k and
\* no other line.
C13_OneErrorOneBlock ==
    OneErrorLine(last)
    => LET k == ErrorLineNumbers(last)[1]
           c == last.args.context_lines
           from == Max(1, k - c)
           to == Min(Len(SplitLinesOfFile), k + c)
       IN /\ last.res.kind = "ok"
          /\ Len(last.res.blocks) = 1
          /\ last.res.blocks[1].shown = [j \in 1..(to - from + 1) |-> from + j - 1]
          /\ last.res.blocks[1].marked = {k}

\* The file a / a / ERROR c / a / a with context_lines=1: one block, lines
\* 2-4, line 3 marked.
C13_Witness ==
    /\ OneErrorLine(last)
    /\ content = <<"a", "\n", "a", "\n", "E", "R", "R", "O", "R", " ", "c", "\n",
                   "a", "\n", "a", "\n">>
    /\ last.args.context_lines = 1
    /\ Len(last.res.blocks) = 1
    /\ last.res.blocks[1].shown = <<2, 3, 4>>
    /\ last.res.blocks[1].marked = {3}

\* A get_log_content call on a file that is found, max_tokens not negative.
ContentReachesFile(c) ==
    /\ c.tool = "get_log_content"
    /\ Locate(c.tool, c.args.filename).kind = "ok"
    /\ c.args.max_tokens >= 0

\* The position (1-based) of the last newline of s, or 0.
LastNewline(s) ==
    IF \E i \in 1..Len(s) : s[i] = "\n"
    THEN CHOOSE i \in 1..Len(s) : s[i] = "\n" /\ \A j \in 1..Len(s) : s[j] = "\n" => j <= i
    ELSE 0

\* The first 4 * max_tokens characters of the file.
BudgetPrefix(c) == SubSeq(read_text, 1, Min(4 * c.args.max_tokens, Len(read_text)))

\* The characters before the last newline of the budget prefix.
UpToLastNewline(c) == SubSeq(read_text, 1, LastNewline(BudgetPrefix(c)) - 1)

WithinContentBudget(c) == Len(read_text) \div 4 <= c.args.max_tokens

\* C14 as stated: the whole content without truncation notice when
\* len(content) // 4 <= max_tokens; otherwise the first 4 * max_tokens
\* characters, cut back to the last newline inside them whenever that keeps
\* at least 80% of the 4 * max_tokens characters, with a truncation notice.
C14_TruncatesAtNewline ==
    ContentReachesFile(last)
    => /\ last.res.kind = "ok"
       /\ IF WithinContentBudget(last)
          THEN ~last.res.truncated /\ last.res.body = read_text
          ELSE /\ last.res.truncated
               /\ IF /\ LastNewline(BudgetPrefix(last)) >= 1
                     /\ 5 * Len(UpToLastNewline(last)) >= 4 * (4 * last.args.max_tokens)
                  THEN last.res.body = UpToLastNewline(last)
                  ELSE last.res.body = BudgetPrefix(last)

\* C14 (amended): the whole content without truncation notice when
\* len(content) // 4 <= max_tokens; otherwise the first 4 * max_tokens
\* characters, cut back to the last newline inside them whenever that keeps
\* more than 80% of the 4 * max_tokens characters (left at 4 * max_tokens
\* characters when it keeps exactly 80% or less), with a truncation notice.
C14_TruncatesAtNewlineAmended ==
    ContentReachesFile(last)
    => /\ last.res.kind = "ok"
       /\ IF WithinContentBudget(last)
          THEN ~last.res.truncated /\ last.res.body = read_text
          ELSE /\ last.res.truncated
               /\ IF /\ LastNewline(BudgetPrefix(last)) >= 1
                     /\ 5 * Len(UpToLastNewline(last)) > 4 * (4 * last.args.max_tokens)
                  THEN last.res.body = UpToLastNewline(last)
                  ELSE last.res.body = BudgetPrefix(last)

\* A truncation that is cut back to a newline.
C14_Witness ==
    /\ ContentReachesFile(last)
    /\ last.args.max_tokens = 5
    /\ last.res.truncated
    /\ Len(last.res.body) = 17
    /\ read_text[18] = "\n"

\* max_tokens is outside its documented bound 1-100000.
BudgetOutOfBounds(c) == c.args.max_tokens \notin 1..MaxTokensCap

\* Some parameter of the call is outside its documented bound (max_tokens is
\* left aside where num_lines or max_matches replaces it).
OutOfBounds(c) ==
    CASE c.tool \in {"head_log", "tail_log", "get_log_content"} ->
            BudgetOutOfBounds(c)
      [] c.tool = "read_log_range" ->
            \/ BudgetOutOfBounds(c)
            \/ c.args.start_line < 1
            \/ ~IsNone(c.args.end_line) /\ Val(c.args.end_line) < c.args.start_line
            \/ c.args.start_line > Len(SplitLinesOfFile)
      [] c.tool = "read_log_paginated" ->
            \/ c.args.start_line < 1
            \/ c.args.start_line > Len(ReadLinesOfFile)
            \/ IF IsNone(c.args.num_lines) THEN BudgetOutOfBounds(c)
               ELSE Val(c.args.num_lines) \notin 1..MaxNumLines
      [] c.tool = "search_log_file" ->
            \/ c.args.context_lines \notin 0..MaxContext
            \/ c.args.skip_matches < 0
            \/ IF IsNone(c.args.max_matches) THEN BudgetOutOfBounds(c)
               ELSE Val(c.args.max_matches) \notin 1..MaxMatchesCap
      [] c.tool = "find_errors" ->
            \/ BudgetOutOfBounds(c)
            \/ c.args.context_lines \notin 0..MaxContext
      [] OTHER -> FALSE

\* C15: a call with a parameter outside its documented bound returns an
\* error result, never a read or search result.
C15_OutOfBoundsRejected == OutOfBounds(last) => last.res.kind = "error"

\* The text begins with 'Error: '.
HasErrorPrefix(text) == Len(text) >= 7 /\ SubSeq(text, 1, 7) = "Error: "

\* C16: the text of every failing call begins with 'Error: '.
C16_ErrorPrefix ==
    (last # NoCall /\ last.tool # "resolve_log_file" /\ last.res.kind = "error")
    => HasErrorPrefix(last.res.text)

\* The directories each source of the configuration yields.
FromArguments == [i \in 1..Len(LOG_DIRECTORIES) |-> Path(LOG_DIRECTORIES[i])]

FromLogMcpDir ==
    IF IsNone(env.LOG_MCP_DIR) THEN <<>>
    ELSE LET entries == split(Val(env.LOG_MCP_DIR), ":")
             trimmed == [i \in 1..Len(entries) |-> strip(entries[i])]
             kept == SelectSeq(trimmed, LAMBDA d : d # <<>>)
         IN [i \in 1..Len(kept) |-> Path(kept[i])]

FromXdgRuntimeDir ==
    IF IsNone(env.XDG_RUNTIME_DIR) \/ Val(env.XDG_RUNTIME_DIR) = <<>> THEN <<>>
    ELSE <<joinpath(Path(Val(env.XDG_RUNTIME_DIR)), <<"l", "o", "g">>)>>

\* C17: get_log_directories returns the directories of the first source that
\* yields any, in the order --log-dir arguments, LOG_MCP_DIR (split on ':',
\* entries trimmed, empty entries dropped), XDG_RUNTIME_DIR/log; it fails
\* when no source yields a directory and never returns an empty list.
C17_FirstNonEmptySource ==
    (last.tool = "get_log_directories")
    => /\ last.res.ok => last.res.dirs # <<>>
       /\ IF FromArguments # <<>>
          THEN last.res.ok /\ last.res.dirs = FromArguments
          ELSE IF FromLogMcpDir # <<>>
          THEN last.res.ok /\ last.res.dirs = FromLogMcpDir
          ELSE IF FromXdgRuntimeDir # <<>>
          THEN last.res.ok /\ last.res.dirs = FromXdgRuntimeDir
          ELSE ~last.res.ok

\* The positions of the permitted directories in which the file exists.
DirsHolding(filename) ==
    {i \in 1..Len(PermittedDirs) : exists(joinpath(PermittedDirs[i], filename))}

Unlistable(d) ==
    IF ~exists(d) THEN "Directory does not exist"
    ELSE IF resolve(d) \notin FsDirs THEN "Path exists but is not a directory"
    ELSE IF resolve(d) \in FsNoRead THEN "Permission denied accessing"
    ELSE ""

\* The regular files that lie directly in a listable permitted directory.
ListableFiles ==
    {f \in FsFiles :
        \E i \in 1..Len(PermittedDirs) :
            /\ Unlistable(PermittedDirs[i]) = ""
            /\ Parent(f) = resolve(PermittedDirs[i])}

\* The permitted directories that cannot be listed, in priority order.
UnlistableDirs == SelectSeq(PermittedDirs, LAMBDA d : Unlistable(d) # "")

\* C20: list_log_files returns the absolute paths of the regular files (no
\* directory) of the permitted directories that can be listed, in sorted
\* order; every directory that is missing, is not a directory or may not be
\* read adds one warning, written after the listing, and the result is
\* never a failure.
C20_ListingWithWarnings ==
    (last.tool = "list_log_files" /\ get_log_directories.ok)
    => LET r == last.res
       IN /\ r.kind # "error"
          /\ Range(r.files) = ListableFiles
          /\ \A i \in 1..Len(r.files) :
                /\ is_absolute(r.files[i])
                /\ r.files[i] \notin FsDirs
                /\ \A j \in (i + 1)..Len(r.files) : ~StrLess(r.files[j], r.files[i])
          /\ r.warnings = [i \in 1..Len(UnlistableDirs) |->
                              [text |-> Unlistable(UnlistableDirs[i]),
                               dir |-> UnlistableDirs[i]]]
          /\ r.warnings # <<>> => r.layout = <<"directories", "files", "warnings">>

\* A directory that may not be read between two that can be listed.
C20_Witness ==
    /\ last.tool = "list_log_files"
    /\ last.res.kind = "ok"
    /\ last.res.files = << <<"/", "l", "/", "a">>, <<"/", "t", "/", "a">>,
                           <<"/", "t", "/", "b">> >>
    /\ Len(last.res.warnings) = 1
    /\ last.res.warnings[1].text = "Permission denied accessing"

\* The result of the call when it is the only call of the process.
Alone(c) ==
    CASE c.tool = "resolve_log_file" -> resolve_log_file(c.args.filename)
      [] c.tool = "get_log_directories" -> get_log_directories
      [] c.tool = "list_log_files" -> list_log_files

\* The second call of a session answers as it does alone, and as the first
\* call did when it is the same call.
SecondCallUnaffected ==
    (prev # NoCall)
    => /\ last.res = Alone(last)
       /\ prev.res = Alone(prev)
       /\ (prev.tool = last.tool /\ prev.args = last.args) => prev.res = last.res

\* No call writes the directory list or the environment it is derived from.
ConfigurationKept ==
    /\ LOG_DIRECTORIES' = LOG_DIRECTORIES
    /\ env' = env

TokenModeSearch(c) ==
    /\ SearchReachesFile(c)
    /\ IsNone(c.args.max_matches)
    /\ c.args.skip_matches < Len(AllMatches(c))

\* The matches after the first skip_matches ones.
MatchesAfterSkip(c) ==
    SubSeq(AllMatches(c), c.args.skip_matches + 1, Len(AllMatches(c)))

\* The running estimate once the first j matches after the skip are taken.
RunningEstimate(c, j) ==
    SumSeq([i \in 1..j |->
              match_tokens(ReadLinesOfFile, MatchesAfterSkip(c)[i],
                           c.args.context_lines, c.args.context_lines)])

\* Match j after the skip passes the test: it is the first one or the
\* running estimate including it is within the budget.
Admitted(c, j) == j = 1 \/ RunningEstimate(c, j) <= c.args.max_tokens

\* C21: in token mode the shown matches are a prefix of the matches after the
\* first skip_matches: match j is shown iff it and every match before it is
\* the first one or keeps the running estimate within max_tokens; the
\* remaining count is totalMatches - (skip_matches + shown) and the resume
\* value is skip_matches + shown.
C21_TokenModePrefix ==
    TokenModeSearch(last)
    => LET rest == MatchesAfterSkip(last)
           shown == Len(last.res.matches)
           total == Len(AllMatches(last))
           resume == last.args.skip_matches + shown
       IN /\ last.res.kind = "ok"
          /\ shown <= Len(rest)
          /\ last.res.matches = SubSeq(rest, 1, shown)
          /\ \A j \in 1..Len(rest) :
               (j <= shown) <=> (\A i \in 1..j : Admitted(last, i))
          /\ last.res.total_matches = total
          /\ last.res.remaining = total - resume
          /\ last.res.cursor = IF resume < total THEN Some(resume) ELSE None

\* Three matches, the first skipped; the second and the third fill the
\* budget exactly.
C21_Witness ==
    /\ TokenModeSearch(last)
    /\ Len(AllMatches(last)) = 3
    /\ last.args.skip_matches = 1
    /\ last.args.max_tokens = 40
    /\ Len(last.res.matches) = 2
    /\ last.res.estimated_tokens = 40

\* The line numbers a find_errors result emits, block after block.
EmittedLines(c) ==
    Flatten([j \in 1..Len(c.res.blocks) |-> c.res.blocks[j].shown])

NoDuplicates(q) == \A i, j \in 1..Len(q) : q[i] = q[j] => i = j

\* The length of the text of a block that emits the given lines: each line
\* with its marker and number, then the separator.
EmittedLen(numbers) ==
    SumSeq([j \in 1..Len(numbers) |->
              LinePrefixLen + Len(SplitLinesOfFile[numbers[j]])]) + SeparatorLen

\* The lines of the clamped context of line k.
ContextOf(k, before, after, total) ==
    {n \in 1..total : k - before <= n /\ n <= k + after}

\* The lines emitted by the blocks before block j.
EmittedBefore(c, j) ==
    UNION {Range(c.res.blocks[i].shown) : i \in 1..(j - 1)}

\* A find_errors result emits no line twice; each block emits the lines of
\* its context that no earlier block emitted, and is charged for these only.
ErrorBlocksDisjoint(c) ==
    /\ NoDuplicates(EmittedLines(c))
    /\ \A j \in 1..Len(c.res.blocks) :
         LET b == c.res.blocks[j] IN
         /\ Range(b.shown) =
              ContextOf(b.error, c.res.context_lines, c.res.context_lines,
                        c.res.total_lines) \ EmittedBefore(c, j)
         /\ b.tokens = EmittedLen(b.shown) \div CharsPerToken

\* A search_log_file result renders the whole clamped context of each shown
\* match, whatever the other blocks show.
SearchBlocksWhole(c) ==
    \A j \in 1..Len(c.res.blocks) :
        LET b == c.res.blocks[j] IN
        (b.from)..(b.to) =
            ContextOf(b.match, c.args.context_lines, c.args.context_lines,
                      c.res.total_lines)

\* C22: a find_errors result emits no file line more than once and charges
\* each block for the lines it newly emits only; a search_log_file result
\* renders the full clamped context of every shown match, so a line in the
\* context of two shown matches appears in both blocks.
C22_BlocksAndRepeats ==
    /\ (last.tool = "find_errors" /\ last.res.kind = "ok")
       => ErrorBlocksDisjoint(last)
    /\ (last.tool = "search_log_file" /\ last.res.kind = "ok")
       => SearchBlocksWhole(last)

\* The file a / ERROR c / a / ERROR c / a with context_lines=1: the second
\* block leaves out line 3, which the first block emitted.
C22_Witness ==
    /\ last.tool = "find_errors"
    /\ content = <<"a", "\n", "E", "R", "R", "O", "R", " ", "c", "\n", "a", "\n",
                   "E", "R", "R", "O", "R", " ", "c", "\n", "a", "\n">>
    /\ last.res.kind = "ok"
    /\ last.args.context_lines = 1
    /\ Len(last.res.blocks) = 2
    /\ last.res.blocks[1].shown = <<1, 2, 3>>
    /\ last.res.blocks[2].shown = <<4, 5>>
    /\ last.res.blocks[2].tokens < last.res.blocks[1].tokens

\* Two shown matches of a search whose blocks both render line 2.
SearchRepeatsLine ==
    /\ last.tool = "search_log_file"
    /\ last.res.kind = "ok"
    /\ Len(last.res.blocks) >= 2
    /\ last.res.blocks[1].to >= 2
    /\ last.res.blocks[2].from <= 2

\* The lines a find_errors result renders with the marker '>>>'.
MarkedLines(c) ==
    UNION {c.res.blocks[j].marked : j \in 1..Len(c.res.blocks)}

\* C23: in a find_errors result, context_lines within its documented range,
\* every hit line counted as shown (one per block) is rendered with the match
\* marker '>>>', also when it lies in the context of an earlier hit.
C23_ShownHitsMarked ==
    (/\ last.tool = "find_errors"
     /\ last.res.kind = "ok"
     /\ last.args.context_lines \in 0..MaxContext)
    => \A j \in 1..Len(last.res.blocks) :
          last.res.blocks[j].error \in MarkedLines(last)

\* A token-mode read_log_paginated call that reached a non-empty file.
PagesFile(c) ==
    /\ c.tool = "read_log_paginated"
    /\ c.res.kind = "ok"
    /\ IsNone(c.args.num_lines)
    /\ c.res.total_lines >= 1

\* The cursor of a response is past the start_line it was returned for.
CursorAdvances(c) ==
    ~IsNone(c.res.cursor) => Val(c.res.cursor) > c.args.start_line

\* The response emits the lines from its start_line on, the first response
\* from line 1, each later one from the line after the previous window; a
\* response without a hint ends with the last line of the file.
EmitsNextLines(c) ==
    /\ c.res.lines = SubSeq(ReadLinesOfFile, c.args.start_line, c.res.shown_end)
    /\ c.args.start_line = IF prev = NoCall THEN 1 ELSE prev.res.shown_end + 1
    /\ IsNone(c.res.cursor) => c.res.shown_end = c.res.total_lines

PagingDone == PagesFile(last) /\ IsNone(last.res.cursor)

\* C24: paging through an unchanged non-empty file in token mode from
\* start_line=1, every returned cursor is greater than the start_line it was
\* returned for, the windows follow each other without gap or overlap, and
\* the caller eventually receives a response with no continuation hint, which
\* ends with the last line of the file.
C24_PagingTerminates ==
    /\ [](PagesFile(last) => CursorAdvances(last))
    /\ [](PagesFile(last) => EmitsNextLines(last))
    /\ (PagesFile(last) ~> PagingDone)

\* The step in which the call that echoes the fingerprint of the latest
\* response takes its own fingerprint: seen is the content the file had when
\* the echoed fingerprint was taken, content the one it has now.
FollowUpStat ==
    /\ HasCursor(last, "read_log_paginated")
    /\ last'.tool = "read_log_paginated"
    /\ last'.res.kind = "stat"
    /\ prev' = last

SizeWarned(r) == "FILE SIZE CHANGED" \in Range(r.warnings)

\* C25 as stated: when the size of the file changed after the fingerprint of
\* call k was taken, be it before call k read the lines, the next call that
\* echoes the fingerprint carries the size warning; and no change of the
\* content after that fingerprint goes without a warning.
C25_WriterDetected ==
    [][FollowUpStat
       => /\ (Len(seen) # Len(content)) => SizeWarned(last'.res)
          /\ (seen # content) => last'.res.warnings # <<>>]_vars

\* The modification time moved by more than the tolerance since the
\* fingerprint of the latest response was taken.
MtimeMoved == Abs(file_mtime - last.res.file_mtime) > MtimeTolerance

\* C25 (amended): when the size of the file changed after the fingerprint of
\* call k was taken, be it before call k read the lines, the next call that
\* echoes the fingerprint carries the size warning; a change of the content
\* that keeps the size is warned of exactly when the modification time moved
\* by more than 1 ms, and goes unnoticed otherwise.
C25_WriterDetectedAmended ==
    [][FollowUpStat
       => /\ SizeWarned(last'.res) <=> (Len(seen) # Len(content))
          /\ (last'.res.warnings # <<>>)
             <=> (Len(seen) # Len(content) \/ MtimeMoved)]_vars

\* The file changed from 9 bytes to 8 bytes between the fingerprint and the
\* reading of the first call (9 bytes reported, two lines counted); the call
\* that echoes the 9 bytes is warned.
C25_Witness ==
    /\ prev # NoCall
    /\ prev.res.file_size = 9
    /\ prev.res.total_lines = 2
    /\ last.tool = "read_log_paginated"
    /\ last.res.kind = "stat"
    /\ last.args.expected_size = Some(9)
    /\ SizeWarned(last.res)
    /\ Len(content) = 8

\* The call reports a total line count.
ReportsTotalLines(c) ==
    \/ c.tool \in ReadTools \cup {"find_errors"} /\ c.res.kind = "ok"
    \/ c.tool = "find_errors" /\ c.res.kind = "info"

TotalLinesOf(c) ==
    IF c.res.kind = "ok" THEN c.res.total_lines ELSE c.res.stated.total_lines

\* C26: all tools number the lines of the same file alike: the total line
\* count a tool reports is the one of the tools that split with readlines
\* and the one of the tools that split with splitlines, and line n has the
\* same text for both, whatever line separators the content has.
C26_SameLineNumbering ==
    ReportsTotalLines(last)
    => /\ TotalLinesOf(last) = Len(ReadLinesOfFile)
       /\ TotalLinesOf(last) = Len(SplitLinesOfFile)
       /\ ReadLinesOfFile = SplitLinesOfFile

====
